---- MODULE Spec2Model ----
(***************************************************************************)
(* A model of the two state machine engines of the repository:             *)
(*   smallmachine.py  StateMachine.__call__ with its tracers               *)
(*                    (MultiTracer, ContextTracer, ErrorTracer)            *)
(*   statemachine.py  StateMachineCore.input with StateMachine's wiring    *)
(*                    and parse, RecentTracer and StackMachine's stacks    *)
(*                    and actions                                          *)
(* Python values are modelled by strings, dicts by functions, lists and    *)
(* deques by sequences, an exception by a record that stops every later    *)
(* step of the call it is raised in.                                       *)
(***************************************************************************)
EXTENDS Integers, Sequences, FiniteSets, TLC

VARIABLES machine, fsm, ctx, ets, sm, rt, last, calls

vars == <<machine, fsm, ctx, ets, sm, rt, last, calls>>

(***************************************************************************)
(* Bounds of the model.                                                    *)
(***************************************************************************)
MaxCalls == 3
MaxRules == 2
MaxAdds == 2
MaxHistoryCalls == 5
MaxParseCalls == 4
MaxParse == 3
MaxOps == 4

(***************************************************************************)
(* Python values.                                                          *)
(***************************************************************************)
Ellipsis == "..."
NoneV == "None"
TrueV == "True"
FalseV == "False"
MatchV == "<re.Match>"
States == {"A", "B", "C"}
Inputs == {"x", "y"}

\* bool(v) for the values of the model
Truthy(v) == v \notin {FalseV, NoneV, ""}

\* dict.get(k, default)
Get(d, k, default) == IF k \in DOMAIN d THEN d[k] ELSE default

\* dict.update(v), as a value
Update(d, v) == [k \in DOMAIN d \cup DOMAIN v |-> IF k \in DOMAIN v THEN v[k] ELSE d[k]]

\* d[k] = v on a dict
SetItem(d, k, v) == [x \in DOMAIN d \cup {k} |-> IF x = k THEN v ELSE d[x]]

\* The empty dict
EmptyDict == [k \in {} |-> NoneV]

\* DequeAppend that drops the new element when the deque is full
DequeAppendKeepOldest(q, maxlen, x) ==
    IF maxlen >= 0 /\ Len(q) >= maxlen THEN q ELSE Append(q, x)

\* collections.deque(maxlen=n).append(x); a negative maxlen stands for None
DequeAppend(q, maxlen, x) ==
    IF maxlen = 0 THEN q
    ELSE IF maxlen > 0 /\ Len(q) >= maxlen THEN Append(Tail(q), x)
    ELSE Append(q, x)

\* deque.pop(): the deque without its last element
DequePop(q) == SubSeq(q, 1, Len(q) - 1)

\* All sequences over S of length at most n
SeqsUpTo(S, n) == UNION {[1..k -> S] : k \in 0..n}

(***************************************************************************)
(* smallmachine.py: tracepoints.                                           *)
(***************************************************************************)
TRACE_INPUT == "{state}('{input}')"
TRACE_NO_RULES == "\t(No rules: {state})"
TRACE_RULE == "  {label}: {test} -- {action} --> {dest}"
TRACE_RESULT == "  {label}: {result}"
TRACE_RESPONSE == "    {response}"
TRACE_NEW_STATE == "    --> {new_state}"
TRACE_UNRECOGNIZED == "\t(No match: '{input}')"
TRACE_UNKNOWN_STATE == "\t(Unknown state: {new_state})"

ErrorKinds == {"NoRulesError", "UnrecognizedInputError", "UnknownStateError"}

NoErr == [kind |-> "none"]

\* The tracepoint each error class hands to ErrorTracer in its tracer() classmethod
ErrorPoint(kind) ==
    CASE kind = "NoRulesError" -> TRACE_NO_RULES
      [] kind = "UnrecognizedInputError" -> TRACE_UNRECOGNIZED
      [] kind = "UnknownStateError" -> TRACE_UNKNOWN_STATE

\* cls.format(trace_lines=..., **context): the message of each error class
ErrorFormat(kind, trace_lines, context) ==
    CASE kind = "NoRulesError" ->
           [kind |-> kind, trace_lines |-> trace_lines, state |-> context.state]
      [] kind = "UnrecognizedInputError" ->
           [kind |-> kind, trace_lines |-> trace_lines, state |-> context.state,
            input_count |-> context.input_count, input |-> context.input]
      [] kind = "UnknownStateError" ->
           [kind |-> kind, trace_lines |-> trace_lines, new_state |-> context.new_state]

\* tp.format(**vals): the rendered line, the template with the values it shows
Format(tp, vals) == <<tp, vals>>

(***************************************************************************)
(* smallmachine.py: rule fields, a literal or a callable.                  *)
(***************************************************************************)
Lit(v) == [callable |-> FALSE, v |-> v]
Fn(name) == [callable |-> TRUE, v |-> name]

\* in_test(["x", "y"]): i in in_list
in_test(i) == IF i \in {"x", "y"} THEN TrueV ELSE FalseV

\* match_test("x"): re.match gives a match object or None
match_test(i) == IF i = "x" THEN MatchV ELSE NoneV

\* result = t(i) if callable(t) else t == i
EvalTest(t, i) ==
    IF t.callable
    THEN (CASE t.v = "in_test" -> in_test(i)
            [] t.v = "match_test" -> match_test(i))
    ELSE IF t.v = i THEN TrueV ELSE FalseV

\* response = a(i) if callable(a) else a      (the callable: lambda i: i)
EvalAction(a, i) == IF a.callable THEN i ELSE a.v

\* A callable destination: lambda s: "A" if s == "B" else "B"
flip(s) == IF s = "B" THEN "A" ELSE "B"

\* dest = d(self.state) if callable(d) else d
EvalDest(d, s) == IF d.callable THEN flip(s) ELSE d.v

Rule(l, t, a, d) == [label |-> l, test |-> t, action |-> a, dest |-> d]

\* The rules the tables of the model are made of
GoRule == Rule("go", Lit("x"), Lit("moved"), Lit("B"))
FarRule == Rule("far", Lit("y"), Lit(NoneV), Lit("C"))
HitRule == Rule("hit", Fn("match_test"), Fn("echo"), Fn("flip"))
EchoRule == Rule("echo", Fn("in_test"), Lit("echo"), Lit(Ellipsis))
BackRule == Rule("back", Lit("x"), Fn("echo"), Lit("A"))
AwayRule == Rule("away", Lit("y"), Lit("moved"), Lit("B"))

RulePool == {GoRule, FarRule, HitRule}

(***************************************************************************)
(* smallmachine.py: ContextTracer.                                         *)
(***************************************************************************)
\* fold_loop that counts the retained snapshot too when it starts to compact
fold_loopInclusive(c) ==
    IF Len(c.history) = 0 THEN c
    ELSE LET latest == c.context
             previous == c.history[Len(c.history)]
         IN IF previous.state = latest.state
            THEN IF "loop_count" \in DOMAIN previous
                 THEN [c EXCEPT !.context = SetItem(latest, "loop_count", previous.loop_count + 1),
                                !.history = DequePop(c.history)]
                 ELSE IF Len(c.history) >= 2 /\ c.history[Len(c.history) - 1].state = latest.state
                      THEN [c EXCEPT !.context = SetItem(latest, "loop_count", 3),
                                     !.history = DequePop(DequePop(c.history))]
                      ELSE c
            ELSE c

\* fold_loop that starts to compact without looking at the state of the snapshot before
\* the previous one
fold_loopUnchecked(c) ==
    IF Len(c.history) = 0 THEN c
    ELSE LET latest == c.context
             previous == c.history[Len(c.history)]
         IN IF previous.state = latest.state
            THEN IF "loop_count" \in DOMAIN previous
                 THEN [c EXCEPT !.context = SetItem(latest, "loop_count", previous.loop_count + 1),
                                !.history = DequePop(c.history)]
                 ELSE IF Len(c.history) >= 2
                      THEN [c EXCEPT !.context = SetItem(latest, "loop_count", 2),
                                     !.history = DequePop(DequePop(c.history))]
                      ELSE c
            ELSE c

\* fold_loop that does not carry the count of the snapshot it folds
fold_loopRestart(c) ==
    IF Len(c.history) = 0 THEN c
    ELSE LET latest == c.context
             previous == c.history[Len(c.history)]
         IN IF previous.state = latest.state
            THEN IF "loop_count" \in DOMAIN previous
                 THEN [c EXCEPT !.context = SetItem(latest, "loop_count", 2),
                                !.history = DequePop(c.history)]
                 ELSE IF Len(c.history) >= 2 /\ c.history[Len(c.history) - 1].state = latest.state
                      THEN [c EXCEPT !.context = SetItem(latest, "loop_count", 2),
                                     !.history = DequePop(DequePop(c.history))]
                      ELSE c
            ELSE c

\* ContextTracer.fold_loop
fold_loop(c) ==
    IF Len(c.history) = 0 THEN c
    ELSE LET latest == c.context
             previous == c.history[Len(c.history)]
         IN IF previous.state = latest.state
            THEN IF "loop_count" \in DOMAIN previous
                 THEN [c EXCEPT !.context = SetItem(latest, "loop_count", previous.loop_count + 1),
                                !.history = DequePop(c.history)]
                 ELSE IF Len(c.history) >= 2
                      THEN LET p_previous == c.history[Len(c.history) - 1]
                           IN IF p_previous.state = latest.state
                              THEN [c EXCEPT !.context = SetItem(latest, "loop_count", 2),
                                             !.history = DequePop(DequePop(c.history))]
                              ELSE c
                      ELSE c
            ELSE c

\* The marker ContextTracer.__call__ adds at the three anomaly tracepoints
Marked(tracepoint, values) ==
    LET v1 == IF tracepoint = TRACE_NO_RULES
              THEN SetItem(values, "no_rules", "(No rules)") ELSE values
        v2 == IF tracepoint = TRACE_UNRECOGNIZED
              THEN SetItem(v1, "unrecognized", "(No match)") ELSE v1
    IN IF tracepoint = TRACE_UNKNOWN_STATE
       THEN SetItem(v2, "unknown_state", "(Unknown state)") ELSE v2

\* CtxCount that counts the inputs a rule fired for
CtxCountFired(c, tracepoint) ==
    IF tracepoint = TRACE_NEW_STATE THEN c.input_count + 1 ELSE c.input_count

\* ContextTracer.input_count after a tracepoint
CtxCount(c, tracepoint) ==
    IF tracepoint = TRACE_INPUT THEN c.input_count + 1 ELSE c.input_count

\* ContextTracerCall that updates the context it has at the Input tracepoint too
ContextTracerCallMerge(c, tracepoint, vals) ==
    LET values == SetItem(vals, "tracepoint", tracepoint)
        c1 == IF tracepoint = TRACE_INPUT
              THEN [c EXCEPT
                      !.history = IF DOMAIN c.context # {}
                                  THEN DequeAppend(c.history, c.maxlen, c.context)
                                  ELSE c.history,
                      !.input_count = CtxCount(c, tracepoint),
                      !.context = Update(c.context,
                                         SetItem(values, "input_count", CtxCount(c, tracepoint)))]
              ELSE [c EXCEPT !.context = Update(c.context, Marked(tracepoint, values))]
    IN IF c.compact /\ tracepoint = TRACE_NEW_STATE THEN fold_loop(c1) ELSE c1

\* ContextTracer.__call__
ContextTracerCall(c, tracepoint, vals) ==
    LET values == SetItem(vals, "tracepoint", tracepoint)
        c1 == IF tracepoint = TRACE_INPUT
              THEN [c EXCEPT
                      !.history = IF DOMAIN c.context # {}
                                  THEN DequeAppend(c.history, c.maxlen, c.context)
                                  ELSE c.history,
                      !.input_count = CtxCount(c, tracepoint),
                      !.context = SetItem(values, "input_count", CtxCount(c, tracepoint))]
              ELSE [c EXCEPT !.context = Update(c.context, Marked(tracepoint, values))]
    IN IF c.compact /\ tracepoint = TRACE_NEW_STATE THEN fold_loop(c1) ELSE c1

\* ContextTracer.format_transition(t): the entry rendered for a snapshot, by the
\* tracepoint it ended at, as the template and the fields the template shows
format_transition(t) ==
    LET tp == Get(t, "tracepoint", "Tracepoint missing")
        Fields(keys) == [k \in keys |-> t[k]]
    IN CASE tp = TRACE_NEW_STATE ->
              <<IF "loop_count" \in DOMAIN t
                THEN "    ({loop_count} loops in '{state}' elided)\n" ELSE "",
                "{input_count}: {state}('{input}') > {label}: {result} -- {response} --> {new_state}",
                Fields({"input_count", "state", "input", "label", "result", "response",
                        "new_state"} \cup (DOMAIN t \cap {"loop_count"}))>>
         [] tp = TRACE_NO_RULES ->
              <<"{input_count}: {state} > No rules", Fields({"input_count", "state"})>>
         [] tp = TRACE_UNRECOGNIZED ->
              <<"{input_count}: {state}('{input}') > No match",
                Fields({"input_count", "state", "input"})>>
         [] tp = TRACE_UNKNOWN_STATE ->
              <<"{input_count}: {state}('{input}') > Unknown state: {new_state}",
                Fields({"input_count", "state", "input", "new_state"})>>
         [] OTHER -> <<"PARTIAL: {str(t)}", t>>

\* ContextTracer.format_trace(): one entry for each snapshot of the history, then one
\* for the context
format_trace(c) ==
    [n \in 1..(Len(c.history) + 1) |->
        format_transition(IF n <= Len(c.history) THEN c.history[n] ELSE c.context)]

ContextDepth == 10

\* ContextTracer.__init__: None or a negative history is unlimited depth
NewContextTracer(history, compact) ==
    [context |-> EmptyDict, input_count |-> 0,
     maxlen |-> IF history < 0 THEN -1 ELSE history,
     history |-> <<>>, compact |-> compact]

(***************************************************************************)
(* smallmachine.py: ErrorTracer.                                           *)
(***************************************************************************)
ErrorTraceDepth == 10

\* ErrorTracer.__init__
NewErrorTracer(kind) ==
    [error_point |-> ErrorPoint(kind), error |-> kind, input_count |-> 0,
     context |-> [input_count |-> 0], maxlen |-> ErrorTraceDepth, trace |-> <<>>]

\* ErrorContext that keeps the values it already has (setdefault for update, no reset)
ErrorContextStale(et, tp, vals) == Update(vals, et.context)

\* The context of an ErrorTracer after a tracepoint
ErrorContext(et, tp, vals) ==
    Update(IF tp = TRACE_INPUT THEN [input_count |-> et.input_count + 1] ELSE et.context,
           vals)

\* ErrorTracerCall that raises before it puts the line of the tracepoint in its trace
ErrorTracerCallEarly(et, tp, vals) ==
    LET n == IF tp = TRACE_INPUT THEN et.input_count + 1 ELSE et.input_count
        c == ErrorContext(et, tp, vals)
    IN [et |-> [et EXCEPT !.input_count = n, !.context = c,
                          !.trace = IF tp = et.error_point THEN @
                                    ELSE DequeAppend(@, et.maxlen, Format(tp, vals))],
        err |-> IF tp = et.error_point THEN ErrorFormat(et.error, et.trace, c) ELSE NoErr]

\* ErrorTracer.__call__: the tracer after the call and the error it raises, if any
ErrorTracerCall(et, tp, vals) ==
    LET n == IF tp = TRACE_INPUT THEN et.input_count + 1 ELSE et.input_count
        c == ErrorContext(et, tp, vals)
        tr == DequeAppend(et.trace, et.maxlen, Format(tp, vals))
    IN [et |-> [et EXCEPT !.input_count = n, !.context = c, !.trace = tr],
        err |-> IF tp = et.error_point THEN ErrorFormat(et.error, tr, c) ELSE NoErr]

(***************************************************************************)
(* smallmachine.py: the call in progress.  m holds the machine's state,    *)
(* the tracers' objects, the error being raised, the value returned, and a *)
(* log of what the call evaluated and emitted, each entry with the state   *)
(* the machine was in at that moment.                                      *)
(***************************************************************************)
Raised(m) == m.err.kind # "none"

\* One tracer of the list statemachine() builds, called with a tracepoint
TracerCall(name, m, tp, vals) ==
    IF name = "ctx"
    THEN [m EXCEPT !.ctx = ContextTracerCall(m.ctx, tp, vals)]
    ELSE LET r == ErrorTracerCall(m.ets[name], tp, vals)
         IN [m EXCEPT !.ets[name] = r.et, !.err = r.err]

\* MultiTracer: the tracers in order; a raise ends the loop
RECURSIVE MultiTracer(_, _, _, _, _)
MultiTracer(tracers, n, m, tp, vals) ==
    IF n > Len(tracers) \/ Raised(m) THEN m
    ELSE MultiTracer(tracers, n + 1, TracerCall(tracers[n], m, tp, vals), tp, vals)

\* self.tracer(tp, **vals)
Emit(tracers, m, tp, vals) ==
    IF Raised(m) THEN m
    ELSE MultiTracer(tracers, 1,
                     [m EXCEPT !.log = Append(@, [ev |-> tp, vals |-> vals, st |-> m.state])],
                     tp, vals)

\* The evaluation of a field of a rule, logged
Eval(m, what, r) ==
    IF Raised(m) THEN m
    ELSE [m EXCEPT !.log = Append(@, [ev |-> what, rule |-> r, st |-> m.state])]

\* self.state = dest
Assign(m, dest) ==
    IF Raised(m) THEN m
    ELSE [m EXCEPT !.state = dest, !.assigns = @ + 1,
                   !.log = Append(@, [ev |-> "assign", st |-> dest])]

\* return response
Return(m, response) == IF Raised(m) THEN m ELSE [m EXCEPT !.ret = response, !.done = TRUE]

\* RuleList without the wildcard rules
RuleListOwnOnly(rules, state) == Get(rules, state, <<>>)

\* RuleList with the wildcard rules put first
RuleListWildcardFirst(rules, state) == Get(rules, Ellipsis, <<>>) \o Get(rules, state, <<>>)

\* rule_list = self.rules.get(self.state, []) + self.rules.get(..., [])
RuleList(rules, state) == Get(rules, state, <<>>) \o Get(rules, Ellipsis, <<>>)

\* CheckKnown that looks up the current state, not the destination
CheckKnownOfState(tracers, rules, m, dest) ==
    IF m.state \notin DOMAIN rules
    THEN Emit(tracers, m, TRACE_UNKNOWN_STATE, [new_state |-> dest])
    ELSE m

\* CheckKnown that also rejects a table in which some rule names a missing destination
CheckKnownEager(tracers, rules, m, dest) ==
    IF \/ dest \notin DOMAIN rules
       \/ \E s \in DOMAIN rules : \E n \in DOMAIN rules[s] :
             /\ ~rules[s][n].dest.callable
             /\ rules[s][n].dest.v \notin DOMAIN rules \cup {Ellipsis}
    THEN Emit(tracers, m, TRACE_UNKNOWN_STATE, [new_state |-> dest])
    ELSE m

\* if dest not in self.rules: self.tracer(TRACE_UNKNOWN_STATE, new_state=dest)
CheckKnown(tracers, rules, m, dest) ==
    IF dest \notin DOMAIN rules
    THEN Emit(tracers, m, TRACE_UNKNOWN_STATE, [new_state |-> dest])
    ELSE m

\* Enter without the test for "..."
EnterAlways(tracers, rules, m, dest) == Assign(CheckKnown(tracers, rules, m, dest), dest)

\* Enter that stays out of a state the table does not have
EnterBlock(tracers, rules, m, dest) ==
    IF dest # Ellipsis
    THEN IF dest \in DOMAIN rules THEN Assign(m, dest) ELSE CheckKnown(tracers, rules, m, dest)
    ELSE m

\* Enter that assigns the state before the check
EnterBeforeCheck(tracers, rules, m, dest) ==
    IF dest # Ellipsis THEN CheckKnown(tracers, rules, Assign(m, dest), dest) ELSE m

\* if dest is not ...: (check) ; self.state = dest
Enter(tracers, rules, m, dest) ==
    IF dest # Ellipsis THEN Assign(CheckKnown(tracers, rules, m, dest), dest) ELSE m

\* Fire that changes the state before it evaluates the action
FireStateFirst(tracers, rules, m, r, i, result) ==
    LET m1 == Emit(tracers, m, TRACE_RESULT, [label |-> r.label, result |-> result])
        dest == EvalDest(r.dest, m1.state)
        m2 == Emit(tracers, Eval(m1, "dest", r), TRACE_NEW_STATE, [new_state |-> dest])
        m3 == Enter(tracers, rules, m2, dest)
        response == EvalAction(r.action, i)
    IN Return(Emit(tracers, Eval(m3, "action", r), TRACE_RESPONSE, [response |-> response]),
              response)

\* The body of "if result:" for rule r: action, destination, state change, return
Fire(tracers, rules, m, r, i, result) ==
    LET m1 == Emit(tracers, m, TRACE_RESULT, [label |-> r.label, result |-> result])
        response == EvalAction(r.action, i)
        m2 == Emit(tracers, Eval(m1, "action", r), TRACE_RESPONSE, [response |-> response])
        dest == EvalDest(r.dest, m2.state)
        m3 == Emit(tracers, Eval(m2, "dest", r), TRACE_NEW_STATE, [new_state |-> dest])
    IN Return(Enter(tracers, rules, m3, dest), response)

\* for l,t,a,d in rule_list: ... else: the rules from the k-th on
RECURSIVE TryRules(_, _, _, _, _, _)
TryRules(tracers, rules, m, rule_list, k, i) ==
    IF Raised(m) THEN m
    ELSE IF k > Len(rule_list)
    THEN Return(Emit(tracers, m, TRACE_UNRECOGNIZED, [input |-> i]), NoneV)
    ELSE LET r == rule_list[k]
             m1 == Emit(tracers, m, TRACE_RULE,
                        [label |-> r.label, test |-> r.test, action |-> r.action, dest |-> r.dest])
             result == EvalTest(r.test, i)
         IN IF Truthy(result)
            THEN Fire(tracers, rules, Eval(m1, "test", r), r, i, result)
            ELSE TryRules(tracers, rules, Eval(m1, "test", r), rule_list, k + 1, i)

\* NoRulesCheck in which the engine itself raises
NoRulesRaise(tracers, m, rule_list) ==
    IF rule_list = <<>>
    THEN [Emit(tracers, m, TRACE_NO_RULES, [state |-> m.state]) EXCEPT
            !.err = [kind |-> "NoRulesError", trace_lines |-> <<>>, state |-> m.state]]
    ELSE m

\* if not rule_list: self.tracer(TRACE_NO_RULES, state=self.state)
NoRulesCheck(tracers, m, rule_list) ==
    IF rule_list = <<>> THEN Emit(tracers, m, TRACE_NO_RULES, [state |-> m.state]) ELSE m

\* StateMachine.__call__(i)
SmallCallResult(f, c, e, i) ==
    LET m0 == [state |-> f.state, ctx |-> c, ets |-> e, err |-> NoErr, ret |-> NoneV,
               done |-> FALSE, log |-> <<>>, assigns |-> 0]
        m1 == Emit(f.tracer, m0, TRACE_INPUT, [state |-> f.state, input |-> i])
        rule_list == RuleList(f.rules, m1.state)
    IN TryRules(f.tracer, f.rules, NoRulesCheck(f.tracer, m1, rule_list), rule_list, 1, i)

(***************************************************************************)
(* statemachine.py: rules (test, dst, action, tag), tests and actions.     *)
(***************************************************************************)
CoreRule(t, d, a, g) == [test |-> t, dst |-> d, action |-> a, tag |-> g]

TransitionInfo(state, dst, count, result) ==
    [state |-> state, dst |-> dst, count |-> count, result |-> result]

TraceInfo(t_info, test, action, tag, out, end) ==
    [t_info |-> t_info, test |-> test, action |-> action, tag |-> tag, out |-> out, end |-> end]

\* trueTest(i, _)
trueTest(i) == TrueV

\* matchTest("x")(i, _): re.match gives a match object or None
matchTest(i) == IF i = "x" THEN MatchV ELSE NoneV

\* result = test(i, t_info) if callable(test) else test == i
CoreEvalTest(test, i, t_info) ==
    IF test.callable
    THEN (CASE test.v = "trueTest" -> trueTest(i)
            [] test.v = "matchTest" -> matchTest(i))
    ELSE IF test.v = i THEN TrueV ELSE FalseV

\* inputAction(i, _)
inputAction(i) == i

\* out = action(i, t_info) if callable(action) else action, for an action without effect
CoreEvalAction(action, i, t_info) == IF action.callable THEN inputAction(i) ELSE action.v

(***************************************************************************)
(* statemachine.py: StackMachine, its stacks and the actions it makes.     *)
(***************************************************************************)
\* The key of the state stack (class StackMachine.StateStack)
StateStack == "StateStack"

\* StackMachine.__init__: self.stacks = {None: deque()}
NewStacks == [k \in {NoneV} |-> <<>>]

\* StackMachine.append(v, stack)
StackAppend(stacks, v, stack) ==
    SetItem(stacks, stack, Append(Get(stacks, stack, <<>>), v))

\* StackPopped that returns the oldest value of the stack
StackPoppedOldest(stacks, stack) ==
    IF stack \notin DOMAIN stacks \/ Len(stacks[stack]) < 1 THEN NoneV
    ELSE stacks[stack][1]

\* The value StackMachine.pop(stack) returns: None for a missing or an empty stack
StackPopped(stacks, stack) ==
    IF stack \notin DOMAIN stacks \/ Len(stacks[stack]) < 1 THEN NoneV
    ELSE stacks[stack][Len(stacks[stack])]

\* The stacks after StackMachine.pop(stack)
StackPop(stacks, stack) ==
    IF stack \notin DOMAIN stacks \/ Len(stacks[stack]) < 1 THEN stacks
    ELSE [stacks EXCEPT ![stack] = DequePop(@)]

StackActions ==
    {"appendInputAction", "appendResultAction", "popAction", "appendStateAction",
     "popStateAction"}

\* The actions appendInputAction(), appendResultAction(), popAction(), appendStateAction()
\* and popStateAction() make, each with its default stack: the call after the action and
\* the action's output
StackAction(m, action, i, t_info) ==
    CASE action.v = "appendInputAction" ->
           [m |-> [m EXCEPT !.stacks = StackAppend(@, i, NoneV)], out |-> NoneV]
      [] action.v = "appendResultAction" ->
           [m |-> [m EXCEPT !.stacks = StackAppend(@, t_info.result, NoneV)], out |-> NoneV]
      [] action.v = "popAction" ->
           [m |-> [m EXCEPT !.stacks = StackPop(@, NoneV)], out |-> StackPopped(m.stacks, NoneV)]
      [] action.v = "appendStateAction" ->
           [m |-> [m EXCEPT !.stacks = StackAppend(@, t_info.state, StateStack)], out |-> NoneV]
      [] action.v = "popStateAction" ->
           [m |-> [m EXCEPT !.stacks = StackPop(@, StateStack),
                            !.state = StackPopped(m.stacks, StateStack)],
            out |-> NoneV]

\* out = action(i, t_info) if callable(action) else action: the call after it and out
CoreAction(m, action, i, t_info) ==
    IF action.callable /\ action.v \in StackActions
    THEN StackAction(m, action, i, t_info)
    ELSE [m |-> m, out |-> CoreEvalAction(action, i, t_info)]

\* StackMachine.len(stack): the stacks after it and the number it returns
StackLen(stacks, stack) ==
    [stacks |-> stacks, n |-> IF stack \notin DOMAIN stacks THEN 0 ELSE Len(stacks[stack])]

\* last.ops: the operations on the stacks made so far, in order: append, pop or len, the
\* name of the stack, the value appended (v), the value pop returned (ret), the number
\* len returned (n), and the count of the input whose action made it (0 if it was called
\* directly)
StackOp(op, stack, v, ret, n, call) ==
    [op |-> op, stack |-> stack, v |-> v, ret |-> ret, n |-> n, call |-> call]

\* The operation on the stacks the call of input() that ended as m made, if the action
\* of the rule it fired is one of StackActions: what the action was given and what the
\* call shows of the value popped (the output of popAction, the state popStateAction set)
StackOps(m) ==
    LET acts == SelectSeq(m.log, LAMBDA e : e.ev = "action")
        t == m.log[Len(m.log)].t
        a == acts[1].rule.action
    IN IF acts = <<>> \/ ~(a.callable /\ a.v \in StackActions) THEN <<>>
       ELSE << CASE a.v = "appendInputAction" ->
                      StackOp("append", NoneV, m.log[Len(m.log)].i, NoneV, 0, m.i_count)
                 [] a.v = "appendResultAction" ->
                      StackOp("append", NoneV, t.t_info.result, NoneV, 0, m.i_count)
                 [] a.v = "popAction" ->
                      StackOp("pop", NoneV, NoneV, m.ret, 0, m.i_count)
                 [] a.v = "appendStateAction" ->
                      StackOp("append", StateStack, t.t_info.state, NoneV, 0, m.i_count)
                 [] a.v = "popStateAction" ->
                      StackOp("pop", StateStack, NoneV, m.state, 0, m.i_count) >>

RECURSIVE StackOpsOver(_)
StackOpsOver(ms) == IF ms = <<>> THEN <<>> ELSE StackOps(Head(ms)) \o StackOpsOver(Tail(ms))

\* The rules add() is called with in the model
CoreRulePool ==
    { CoreRule(Lit("x"), "B", Lit("moved"), "go"),
      CoreRule(Fn("trueTest"), NoneV, Fn("inputAction"), "echo"),
      CoreRule(Fn("matchTest"), "A", Lit(NoneV), NoneV) }

(***************************************************************************)
(* statemachine.py: RecentTracer.                                          *)
(***************************************************************************)
RecentDepth == 5

\* RecentTracer.__init__: a negative depth is unlimited
NewRecentTracer(depth) ==
    [maxlen |-> IF depth < 0 THEN -1 ELSE depth, buffer |-> <<>>, t_count |-> 0]

NoRt == NewRecentTracer(0)

\* The loop count RecentTracer.__call__ gives a followed transition
LoopCount(r, t) ==
    IF Len(r.buffer) > 0
       /\ t.t_info.state = r.buffer[Len(r.buffer)].t.t_info.state
       /\ t.t_info.state = t.end
    THEN r.buffer[Len(r.buffer)].loop_count + 1
    ELSE 1

\* RecentTracerCall that counts a transition that stays but never replaces the last entry
RecentTracerCallKeepAll(r, i, t) ==
    IF ~Truthy(t.t_info.result)
    THEN [r EXCEPT !.t_count = @ + 1]
    ELSE [r EXCEPT
            !.buffer = DequeAppend(r.buffer, r.maxlen,
                                   [i |-> i, t |-> t, loop_count |-> LoopCount(r, t),
                                    t_count |-> r.t_count + 1]),
            !.t_count = 0]

\* RecentTracer.__call__(i, t)
RecentTracerCall(r, i, t) ==
    IF ~Truthy(t.t_info.result)
    THEN [r EXCEPT !.t_count = @ + 1]
    ELSE LET loop_count == LoopCount(r, t)
             kept == IF loop_count > 1 THEN DequePop(r.buffer) ELSE r.buffer
         IN [r EXCEPT
               !.buffer = DequeAppend(kept, r.maxlen,
                                      [i |-> i, t |-> t, loop_count |-> loop_count,
                                       t_count |-> r.t_count + 1]),
               !.t_count = 0]

\* The lines RecentTracer.formatTrace renders for one buffer entry
FormatEntry(e) ==
    (IF e.loop_count > 1 THEN << <<"  ...(Looped {lc} times)", e.loop_count>> >> ELSE <<>>)
    \o << <<"  {t_info.count}: {ti}", e.t.t_info.count, e.i>>,
          <<"      ({tc} tested) [{tag}] {t_info.result} <-- ({t_info.state}, {test}, {action}, {t_info.dst})",
            e.t_count, e.t.tag, e.t.t_info.result, e.t.t_info.state, e.t.test, e.t.action,
            e.t.t_info.dst>>,
          <<"          {t_info.state} --> {end}\n          ==> '{out}'",
            e.t.t_info.state, e.t.end, e.t.out>> >>

\* RecentTracer.formatTrace
RECURSIVE formatTrace(_)
formatTrace(buffer) ==
    IF buffer = <<>> THEN <<>> ELSE FormatEntry(Head(buffer)) \o formatTrace(Tail(buffer))

\* RecentTracer.throw(i, s, c): the ValueError it raises
throw(r, i, s, c) ==
    [kind |-> "ValueError", trace_lines |-> formatTrace(r.buffer), state |-> s,
     input_count |-> c, input |-> i]

(***************************************************************************)
(* statemachine.py: StateMachineCore.input, the call in progress.          *)
(***************************************************************************)
\* self.tracer(i, t): the tracers StateMachine.__init__ installed, in order (a tracer
\* given to it, which records its arguments, then the RecentTracer); m.seen is what each
\* was called with
CoreTrace(tracer, m, i, t) ==
    IF Raised(m) THEN m
    ELSE [m EXCEPT !.log = Append(@, [ev |-> "tracer", i |-> i, t |-> t, st |-> m.state]),
                   !.seen = @ \o [n \in DOMAIN tracer |-> [to |-> tracer[n], i |-> i, t |-> t]],
                   !.rt = IF "rt" \in {tracer[n] : n \in DOMAIN tracer}
                          THEN RecentTracerCall(m.rt, i, t) ELSE m.rt]

\* if dst is not None: self.state = dst
CoreEnter(m, dst) == IF dst # NoneV THEN Assign(m, dst) ELSE m

\* CoreFire that calls the tracer before the action
CoreFireTraceFirst(tracer, m, r, i, t_info) ==
    LET m0 == CoreEnter(m, r.dst)
        m1 == CoreTrace(tracer, m0, i, TraceInfo(t_info, r.test, r.action, r.tag, NoneV, m0.state))
        a == CoreAction(Eval(m1, "action", r), r.action, i, t_info)
    IN Return(a.m, a.out)

\* CoreFire that runs the action before the state change
CoreFireActionFirst(tracer, m, r, i, t_info) ==
    LET a == CoreAction(Eval(m, "action", r), r.action, i, t_info)
        m1 == CoreEnter(a.m, r.dst)
    IN Return(CoreTrace(tracer, m1, i, TraceInfo(t_info, r.test, r.action, r.tag, a.out, m1.state)),
              a.out)

\* The body of "if result:" for a rule: state change, action, tracer, return
CoreFire(tracer, m, r, i, t_info) ==
    LET a == CoreAction(Eval(CoreEnter(m, r.dst), "action", r), r.action, i, t_info)
        m1 == a.m
        out == a.out
    IN Return(CoreTrace(tracer, m1, i, TraceInfo(t_info, r.test, r.action, r.tag, out, m1.state)),
              out)

\* CoreUnrecognized with a handler that never raises
CoreUnrecognizedSwallow(unrecognized, m, i) ==
    IF Raised(m) THEN m
    ELSE Return([m EXCEPT !.log = Append(@, [ev |-> "unrecognized", i |-> i, s |-> m.state,
                                              c |-> m.i_count, st |-> m.state])],
                NoneV)

\* return self.unrecognized(i, self.state, self.i_count)
CoreUnrecognized(unrecognized, m, i) ==
    IF Raised(m) THEN m
    ELSE LET m1 == [m EXCEPT !.log = Append(@, [ev |-> "unrecognized", i |-> i,
                                                 s |-> m.state, c |-> m.i_count, st |-> m.state])]
         IN IF unrecognized = "throw"
            THEN [m1 EXCEPT !.err = throw(m.rt, i, m.state, m.i_count)]
            ELSE Return(m1, NoneV)

\* for (test, dst, action, tag) in rlist + self.rules.get(None, []): the rules from the k-th on
RECURSIVE CoreTryRules(_, _, _, _, _)
CoreTryRules(s, m, rlist, k, i) ==
    IF Raised(m) THEN m
    ELSE IF k > Len(rlist) THEN CoreUnrecognized(s.unrecognized, m, i)
    ELSE LET r == rlist[k]
             result == CoreEvalTest(r.test, i, TransitionInfo(m.state, r.dst, m.i_count, NoneV))
             t_info == TransitionInfo(m.state, r.dst, m.i_count, result)
             m1 == Eval(m, "test", r)
         IN IF Truthy(result)
            THEN CoreFire(s.tracer, m1, r, i, t_info)
            ELSE CoreTryRules(s, CoreTrace(s.tracer, m1, i,
                                           TraceInfo(t_info, r.test, r.action, r.tag, NoneV, m1.state)),
                              rlist, k + 1, i)

\* rlist + self.rules.get(None, [])
CoreRuleList(rules, state) == Get(rules, state, <<>>) \o Get(rules, NoneV, <<>>)

\* self.i_count += 1
CoreCount(s) == s.i_count + 1

\* StateMachineCore.input(i)
CoreInputResult(s, r, i) ==
    LET m0 == [state |-> s.state, i_count |-> CoreCount(s), rt |-> r, stacks |-> s.stacks,
               err |-> NoErr, ret |-> NoneV, done |-> FALSE, log |-> <<>>, assigns |-> 0,
               seen |-> <<>>]
    IN CoreTryRules(s, m0, CoreRuleList(s.rules, s.state), 1, i)

\* StateMachineCore.add(state, test, dst, action, tag)
AddRule(rules, state, r) ==
    LET r1 == IF state \notin DOMAIN rules THEN SetItem(rules, state, <<>>) ELSE rules
        r2 == IF r.dst \notin DOMAIN r1 THEN SetItem(r1, r.dst, <<>>) ELSE r1
    IN [r2 EXCEPT ![state] = Append(@, r)]

\* The number of rules in a table
RECURSIVE RuleCount(_)
RuleCount(rules) ==
    IF DOMAIN rules = {} THEN 0
    ELSE LET k == CHOOSE k \in DOMAIN rules : TRUE
         IN Len(rules[k]) + RuleCount([x \in DOMAIN rules \ {k} |-> rules[x]])

(***************************************************************************)
(* smallmachine.py: statemachine() and StateMachine.__init__.              *)
(***************************************************************************)
\* The order statemachine() appends the checkpoints in
CheckpointOrder == <<"NoRulesError", "UnrecognizedInputError", "UnknownStateError">>

\* Tracers with the ContextTracer appended after the checkpoints
TracersContextLast(lenient) ==
    SelectSeq(CheckpointOrder, LAMBDA k : k \notin lenient) \o <<"ctx">>

\* statemachine(lenient=...): the ContextTracer, then a tracer for each error not in lenient
Tracers(lenient) ==
    <<"ctx">> \o SelectSeq(CheckpointOrder, LAMBDA k : k \notin lenient)

\* The rule lists of state "A" in the tables of the model: no rule twice
RuleLists ==
    {l \in SeqsUpTo(RulePool, MaxRules) : \A j, k \in DOMAIN l : l[j] = l[k] => j = k}

\* The rule tables of the model: state -> list of rules, "..." the wildcard
Tables ==
    { t \in UNION {[D -> RuleLists \cup {<<BackRule>>, <<EchoRule>>}] :
                     D \in SUBSET {"A", "B", Ellipsis}} :
        /\ "A" \in DOMAIN t => t["A"] \in RuleLists
        /\ "B" \in DOMAIN t => t["B"] = <<BackRule>>
        /\ Ellipsis \in DOMAIN t => t[Ellipsis] \in {<<EchoRule>>, <<FarRule>>} }

\* The tracer configurations: none (the default no-op tracer) or statemachine(lenient)
Lenients == {{}, {"NoRulesError"}, {"UnknownStateError"}, ErrorKinds}

\* The values of the arguments tracer and unrecognized of StateMachine.__init__: True,
\* False, an integer, a callable
TrueArg == [kind |-> "True", n |-> 0]
FalseArg == [kind |-> "False", n |-> 0]
IntArg(n) == [kind |-> "int", n |-> n]
CallableArg == [kind |-> "callable", n |-> 0]

\* def __init__(self, start, tracer=True, unrecognized=True)
DefaultArgs == [tracer |-> TrueArg, unrecognized |-> TrueArg]

\* last.parse: the inputs the last call of parse() was given and what it yielded, if
\* the last call was one
NoParse == [inputs |-> <<>>, yielded |-> <<>>]

NoLast ==
    [engine |-> "none", input |-> NoneV, entry |-> NoneV, rules |-> EmptyDict,
     err |-> NoErr, ret |-> NoneV, done |-> FALSE, log |-> <<>>, assigns |-> 0, run |-> 0,
     trail |-> <<>>, seen |-> <<>>, parse |-> NoParse, ops |-> <<>>]

\* last.trail: the state before and the state after each call made so far, and whether
\* the call fired a rule.
\* The number of calls in a row, the one that ended as m included, that each fired a rule
\* in the same state and left the machine in it
Run(entry, m, fired) ==
    IF fired /\ m.done /\ m.state = entry
    THEN IF last.run > 0 /\ last.entry = entry THEN last.run + 1 ELSE 1
    ELSE 0

NoCtx == NewContextTracer(ContextDepth, TRUE)
NoCore ==
    [rules |-> EmptyDict, state |-> NoneV, i_count |-> 0, tracer |-> <<>>,
     unrecognized |-> "noop", stacks |-> EmptyDict, args |-> DefaultArgs]

\* StateMachine(state, rules): the default tracer is a no-op
InitBare ==
    /\ machine = "small"
    /\ \E t \in Tables : fsm = [state |-> "A", rules |-> t, tracer |-> <<>>]
    /\ ctx = NoCtx
    /\ ets = [k \in ErrorKinds |-> NewErrorTracer(k)]
    /\ sm = NoCore
    /\ rt = NoRt
    /\ last = NoLast
    /\ calls = 0

\* statemachine(state, rules, lenient=...)
InitSmall ==
    /\ machine = "small"
    /\ \E t \in Tables, l \in Lenients :
         fsm = [state |-> "A", rules |-> t, tracer |-> Tracers(l)]
    /\ ctx = NewContextTracer(ContextDepth, TRUE)
    /\ ets = [k \in ErrorKinds |-> NewErrorTracer(k)]
    /\ sm = NoCore
    /\ rt = NoRt
    /\ last = NoLast
    /\ calls = 0

\* fsm(i), one of at most `limit` calls
SmallCallWithin(i, limit) ==
    /\ machine = "small"
    /\ calls < limit
    /\ \E m \in {SmallCallResult(fsm, ctx, ets, i)} :
          /\ fsm' = [fsm EXCEPT !.state = m.state]
          /\ ctx' = m.ctx
          /\ ets' = m.ets
          /\ last' = [engine |-> "small", input |-> i, entry |-> fsm.state,
                      rules |-> fsm.rules, err |-> m.err, ret |-> m.ret, done |-> m.done,
                      log |-> m.log, assigns |-> m.assigns,
                      run |-> Run(fsm.state, m,
                                  \E n \in DOMAIN m.log : m.log[n].ev = TRACE_RESULT),
                      trail |-> Append(last.trail,
                                       [before |-> fsm.state, after |-> m.state,
                                        fired |-> \E n \in DOMAIN m.log :
                                                     m.log[n].ev = TRACE_RESULT]),
                      seen |-> <<>>, parse |-> NoParse, ops |-> last.ops]
    /\ calls' = calls + 1
    /\ UNCHANGED <<machine, sm, rt>>

\* fsm(i)
SmallCall(i) == SmallCallWithin(i, MaxCalls)

\* fsm.rules[s] = rl, between two calls
SetRules(s, rl) ==
    /\ machine = "small"
    /\ s \notin DOMAIN fsm.rules
    /\ fsm' = [fsm EXCEPT !.rules = SetItem(@, s, rl)]
    /\ UNCHANGED <<machine, ctx, ets, sm, rt, last, calls>>

\* StateMachine(start, tracer=True, unrecognized=True): RecentTracer is tracer and handler
InitCore ==
    /\ machine = "core"
    /\ sm = [rules |-> [k \in {"A", NoneV} |-> <<>>], state |-> "A", i_count |-> 0,
             tracer |-> <<"rt">>, unrecognized |-> "throw", stacks |-> EmptyDict,
             args |-> DefaultArgs]
    /\ rt = NewRecentTracer(RecentDepth)
    /\ fsm = [state |-> NoneV, rules |-> EmptyDict, tracer |-> <<>>]
    /\ ctx = NoCtx
    /\ ets = [k \in ErrorKinds |-> NewErrorTracer(k)]
    /\ last = NoLast
    /\ calls = 0

\* StateMachine(start, unrecognized=False): no tracer, unrecognized input is ignored
InitCoreLenient ==
    /\ machine = "core"
    /\ sm = [rules |-> [k \in {"A", NoneV} |-> <<>>], state |-> "A", i_count |-> 0,
             tracer |-> <<>>, unrecognized |-> "noop", stacks |-> EmptyDict,
             args |-> [tracer |-> TrueArg, unrecognized |-> FalseArg]]
    /\ rt = NoRt
    /\ fsm = [state |-> NoneV, rules |-> EmptyDict, tracer |-> <<>>]
    /\ ctx = NoCtx
    /\ ets = [k \in ErrorKinds |-> NewErrorTracer(k)]
    /\ last = NoLast
    /\ calls = 0

\* sm.add(state, test, dst, action, tag); the model builds the table before the first input
Add(state, r) ==
    /\ machine = "core"
    /\ calls = 0
    /\ RuleCount(sm.rules) < MaxAdds
    /\ sm' = [sm EXCEPT !.rules = AddRule(@, state, r)]
    /\ UNCHANGED <<machine, fsm, ctx, ets, rt, last, calls>>

\* sm.input(i), one of at most `limit` calls
CoreInputWithin(i, limit) ==
    /\ machine = "core"
    /\ calls < limit
    /\ \E m \in {CoreInputResult(sm, rt, i)} :
          /\ sm' = [sm EXCEPT !.state = m.state, !.i_count = m.i_count, !.stacks = m.stacks]
          /\ rt' = m.rt
          /\ last' = [engine |-> "core", input |-> i, entry |-> sm.state,
                      rules |-> sm.rules, err |-> m.err, ret |-> m.ret, done |-> m.done,
                      log |-> m.log, assigns |-> m.assigns,
                      run |-> Run(sm.state, m,
                                  \E n \in DOMAIN m.log : m.log[n].ev = "action"),
                      trail |-> Append(last.trail,
                                       [before |-> sm.state, after |-> m.state,
                                        fired |-> \E n \in DOMAIN m.log :
                                                     m.log[n].ev = "action"]),
                      seen |-> m.seen, parse |-> NoParse,
                      ops |-> last.ops \o StackOps(m)]
    /\ calls' = calls + 1
    /\ UNCHANGED <<machine, fsm, ctx, ets>>

\* sm.input(i)
CoreInput(i) == CoreInputWithin(i, MaxCalls)

\* parse that yields the truthy outputs only
RECURSIVE parseTruthy(_, _, _, _, _)
parseTruthy(s, r, inputs, ms, yielded) ==
    IF inputs = <<>> THEN [sm |-> s, rt |-> r, ms |-> ms, yielded |-> yielded]
    ELSE LET m == CoreInputResult(s, r, Head(inputs))
             s1 == [s EXCEPT !.state = m.state, !.i_count = m.i_count, !.stacks = m.stacks]
         IN IF Raised(m)
            THEN [sm |-> s1, rt |-> m.rt, ms |-> Append(ms, m), yielded |-> yielded]
            ELSE parseTruthy(s1, m.rt, Tail(inputs), Append(ms, m),
                             IF Truthy(m.ret) THEN Append(yielded, m.ret) ELSE yielded)

\* StateMachine.parse(inputs), iterated to its end: for i in inputs: out = self.input(i);
\* if out is not None: yield out. The machine and its RecentTracer after it, the calls of
\* input() it made (ms) and what it yielded; an input() that raises ends it
RECURSIVE parse(_, _, _, _, _)
parse(s, r, inputs, ms, yielded) ==
    IF inputs = <<>> THEN [sm |-> s, rt |-> r, ms |-> ms, yielded |-> yielded]
    ELSE LET m == CoreInputResult(s, r, Head(inputs))
             s1 == [s EXCEPT !.state = m.state, !.i_count = m.i_count, !.stacks = m.stacks]
         IN IF Raised(m)
            THEN [sm |-> s1, rt |-> m.rt, ms |-> Append(ms, m), yielded |-> yielded]
            ELSE parse(s1, m.rt, Tail(inputs), Append(ms, m),
                       IF m.ret # NoneV THEN Append(yielded, m.ret) ELSE yielded)

\* last.run after more calls, given as the state before, the state after, whether a rule
\* fired and whether the call returned, for each
RECURSIVE RunOver(_, _, _)
RunOver(run, entry, steps) ==
    IF steps = <<>> THEN run
    ELSE LET h == Head(steps)
         IN RunOver(IF h.fired /\ h.done /\ h.after = h.before
                    THEN (IF run > 0 /\ entry = h.before THEN run + 1 ELSE 1)
                    ELSE 0,
                    h.before, Tail(steps))

\* list(sm.parse(inputs)) for at least one input, the calls of input() it makes being
\* among the at most `limit` calls of the run
ParseWithin(inputs, limit) ==
    /\ machine = "core"
    /\ inputs # <<>>
    /\ calls + Len(inputs) <= limit
    /\ \E p \in {parse(sm, rt, inputs, <<>>, <<>>)} :
          LET n == Len(p.ms)
              m == p.ms[n]
              steps == [k \in 1..n |->
                          [before |-> IF k = 1 THEN sm.state ELSE p.ms[k - 1].state,
                           after |-> p.ms[k].state,
                           fired |-> \E j \in DOMAIN p.ms[k].log : p.ms[k].log[j].ev = "action",
                           done |-> p.ms[k].done]]
          IN /\ sm' = p.sm
             /\ rt' = p.rt
             /\ last' = [engine |-> "core", input |-> inputs[n], entry |-> steps[n].before,
                         rules |-> sm.rules, err |-> m.err, ret |-> m.ret, done |-> m.done,
                         log |-> m.log, assigns |-> m.assigns,
                         run |-> RunOver(last.run, last.entry, steps),
                         trail |-> last.trail
                                   \o [k \in 1..n |->
                                         [before |-> steps[k].before, after |-> steps[k].after,
                                          fired |-> steps[k].fired]],
                         seen |-> m.seen,
                         parse |-> [inputs |-> inputs, yielded |-> p.yielded],
                         ops |-> last.ops \o StackOpsOver(p.ms)]
             /\ calls' = calls + n
    /\ UNCHANGED <<machine, fsm, ctx, ets>>

Init == InitBare \/ InitSmall \/ InitCore \/ InitCoreLenient

Next ==
    \/ \E i \in Inputs : SmallCall(i)
    \/ SetRules("C", <<BackRule>>)
    \/ \E state \in {"A", NoneV}, r \in CoreRulePool : Add(state, r)
    \/ \E i \in Inputs : CoreInput(i)

Spec == Init /\ [][Next]_vars

(***************************************************************************)
(* Longer runs over fixed tables, with the history capacities and trace    *)
(* depths the tracers can be built with.                                   *)
(***************************************************************************)
\* The tables of the longer runs: x loops in A and y leaves A, with and without a
\* wildcard rule that stays; or every input stays in A
HistoryTables ==
    { [s \in {"A", "B"} |-> IF s = "A" THEN <<BackRule, AwayRule>> ELSE <<BackRule>>],
      [s \in {"A", "B", Ellipsis} |->
          IF s = "A" THEN <<BackRule, AwayRule>>
          ELSE IF s = "B" THEN <<BackRule>> ELSE <<EchoRule>>],
      [s \in {"A"} |-> <<BackRule, FarRule>>],
      [s \in {"A", Ellipsis} |-> IF s = "A" THEN <<>> ELSE <<EchoRule>>] }

\* history=...: the capacities of ContextTracer.history, a negative one for None
HistoryOpts == {0, 1, 2, 3, -1}

\* MultiTracer(ContextTracer(history, compact), checkpoints...) as statemachine() builds
\* it, strict or lenient
InitHistory ==
    /\ machine = "small"
    /\ \E t \in HistoryTables, l \in {{}, ErrorKinds} :
         fsm = [state |-> "A", rules |-> t, tracer |-> Tracers(l)]
    /\ \E h \in HistoryOpts, c \in BOOLEAN : ctx = NewContextTracer(h, c)
    /\ ets = [k \in ErrorKinds |-> NewErrorTracer(k)]
    /\ sm = NoCore
    /\ rt = NoRt
    /\ last = NoLast
    /\ calls = 0

\* StateMachine.build(state, *rules): add() for each rule, in order
RECURSIVE build(_, _, _)
build(rules, state, rs) ==
    IF rs = <<>> THEN rules ELSE build(AddRule(rules, state, Head(rs)), state, Tail(rs))

\* The rules of the longer runs
LoopCoreRule == CoreRule(Lit("x"), "A", Lit("moved"), "loop")
AwayCoreRule == CoreRule(Lit("y"), "B", Fn("inputAction"), "away")
BackCoreRule == CoreRule(Lit("x"), "A", Lit(NoneV), NoneV)
EchoCoreRule == CoreRule(Fn("trueTest"), NoneV, Fn("inputAction"), "echo")
CallCoreRule == CoreRule(Lit("x"), "B", Fn("appendStateAction"), "call")
ReturnCoreRule == CoreRule(Lit("y"), NoneV, Fn("popStateAction"), "return")

\* StateMachineCore.__init__: self.rules = {start: [], None: []}
NewRules(start) == [k \in {start, NoneV} |-> <<>>]

\* The tables of the longer runs of StateMachine: x loops in A and y leaves A, with and
\* without a global rule that stays
CoreHistoryTables ==
    LET t == build(build(NewRules("A"), "A", <<LoopCoreRule, AwayCoreRule>>),
                   "B", <<BackCoreRule>>)
    IN {t, build(t, NoneV, <<EchoCoreRule>>)}

\* The table of the runs of StackMachine: x pushes the state and goes to B, y pops the
\* state to go to
StackTable ==
    build(build(NewRules("A"), "A", <<CallCoreRule, ReturnCoreRule>>),
          "B", <<CallCoreRule, ReturnCoreRule>>)

\* The table of the runs of StackMachine with a destination the action overrides: x
\* pushes the state and goes to B, y has the destination B and pops the state to go to
OverrideCoreRule == CoreRule(Lit("y"), "B", Fn("popStateAction"), "override")

OverrideTable ==
    build(build(NewRules("A"), "A", <<CallCoreRule, OverrideCoreRule>>),
          "B", <<CallCoreRule, OverrideCoreRule>>)

\* tracer=n: the depths of RecentTracer.buffer, a negative one for unlimited
DepthOpts == {0, 1, 2, RecentDepth, -1}

\* StateMachine(start, tracer=n)
InitHistoryCore ==
    /\ machine = "core"
    /\ \E t \in CoreHistoryTables, d \in DepthOpts :
         /\ sm = [rules |-> t, state |-> "A", i_count |-> 0, tracer |-> <<"rt">>,
                  unrecognized |-> "throw", stacks |-> EmptyDict,
                  args |-> [tracer |-> IntArg(d), unrecognized |-> TrueArg]]
         /\ rt = NewRecentTracer(d)
    /\ fsm = [state |-> NoneV, rules |-> EmptyDict, tracer |-> <<>>]
    /\ ctx = NoCtx
    /\ ets = [k \in ErrorKinds |-> NewErrorTracer(k)]
    /\ last = NoLast
    /\ calls = 0

\* StackMachine(start, tracer=n)
InitHistoryStack ==
    /\ machine = "core"
    /\ \E d \in {1, RecentDepth}, t \in {StackTable, OverrideTable} :
         /\ sm = [rules |-> t, state |-> "A", i_count |-> 0, tracer |-> <<"rt">>,
                  unrecognized |-> "throw", stacks |-> NewStacks,
                  args |-> [tracer |-> IntArg(d), unrecognized |-> TrueArg]]
         /\ rt = NewRecentTracer(d)
    /\ fsm = [state |-> NoneV, rules |-> EmptyDict, tracer |-> <<>>]
    /\ ctx = NoCtx
    /\ ets = [k \in ErrorKinds |-> NewErrorTracer(k)]
    /\ last = NoLast
    /\ calls = 0

\* StateMachineInit that lets a callable tracer replace the RecentTracer
StateMachineInitCustomOnly(start, tracer, unrecognized) ==
    [sm |-> [rules |-> NewRules(start), state |-> start, i_count |-> 0,
             tracer |-> IF tracer.kind = "callable" THEN <<"custom">>
                        ELSE IF unrecognized.kind = "True" THEN <<"rt">> ELSE <<>>,
             unrecognized |-> IF unrecognized.kind = "True" THEN "throw" ELSE "noop",
             stacks |-> EmptyDict,
             args |-> [tracer |-> tracer, unrecognized |-> unrecognized]],
     rt |-> IF unrecognized.kind = "True"
            THEN NewRecentTracer(IF tracer.kind = "int" THEN tracer.n ELSE RecentDepth)
            ELSE NoRt]

\* StateMachine.__init__(start, tracer, unrecognized), unrecognized being True or False:
\* the machine and the RecentTracer it builds if unrecognized is True
StateMachineInit(start, tracer, unrecognized) ==
    LET core == [rules |-> NewRules(start), state |-> start, i_count |-> 0,
                 tracer |-> IF tracer.kind = "callable" THEN <<"custom">> ELSE <<>>,
                 unrecognized |-> "noop", stacks |-> EmptyDict,
                 args |-> [tracer |-> tracer, unrecognized |-> unrecognized]]
        traceDepth == IF tracer.kind = "int" THEN tracer.n ELSE RecentDepth
    IN IF unrecognized.kind = "True"
       THEN [sm |-> [core EXCEPT !.unrecognized = "throw",
                                 !.tracer = IF tracer.kind = "callable"
                                            THEN <<"custom", "rt">> ELSE <<"rt">>],
             rt |-> NewRecentTracer(traceDepth)]
       ELSE [sm |-> core, rt |-> NoRt]

\* StateMachine(start, tracer, unrecognized) with the default tracer or a tracer given,
\* the default handler or none, and the rules of a table of the longer runs
InitWired ==
    /\ machine = "core"
    /\ \E t \in CoreHistoryTables, tracer \in {TrueArg, CallableArg},
          unrecognized \in {TrueArg, FalseArg} :
         \E w \in {StateMachineInit("A", tracer, unrecognized)} :
            /\ sm = [w.sm EXCEPT !.rules = t]
            /\ rt = w.rt
    /\ fsm = [state |-> NoneV, rules |-> EmptyDict, tracer |-> <<>>]
    /\ ctx = NoCtx
    /\ ets = [k \in ErrorKinds |-> NewErrorTracer(k)]
    /\ last = NoLast
    /\ calls = 0

\* The rules of the runs of parse(): in A, x stays with the output False and y goes to B
\* with the input as output; in B, x goes back to A with no output
QuietCoreRule == CoreRule(Lit("x"), NoneV, Lit(FalseV), "quiet")

ParseTables ==
    LET t == build(build(NewRules("A"), "A", <<QuietCoreRule, AwayCoreRule>>),
                   "B", <<BackCoreRule>>)
    IN {t, build(t, NoneV, <<EchoCoreRule>>)}

\* StateMachine(start) and StateMachine(start, unrecognized=False) with these rules
InitParse ==
    /\ machine = "core"
    /\ \E t \in ParseTables, unrecognized \in {TrueArg, FalseArg} :
         \E w \in {StateMachineInit("A", TrueArg, unrecognized)} :
            /\ sm = [w.sm EXCEPT !.rules = t]
            /\ rt = w.rt
    /\ fsm = [state |-> NoneV, rules |-> EmptyDict, tracer |-> <<>>]
    /\ ctx = NoCtx
    /\ ets = [k \in ErrorKinds |-> NewErrorTracer(k)]
    /\ last = NoLast
    /\ calls = 0

NextParse ==
    \/ \E i \in Inputs : CoreInputWithin(i, MaxParseCalls)
    \/ \E inputs \in SeqsUpTo(Inputs, MaxParse) : ParseWithin(inputs, MaxParseCalls)

SpecParse == InitParse /\ [][NextParse]_vars

\* The names of the stacks and the values of the direct calls of append(), pop(), len()
StackNames == {NoneV, "s"}
StackValues == {"v", "w"}

\* StackMachine(start) with the rules of StackTable
InitStack ==
    /\ machine = "core"
    /\ \E w \in {StateMachineInit("A", TrueArg, TrueArg)} :
          /\ sm = [w.sm EXCEPT !.rules = StackTable, !.stacks = NewStacks]
          /\ rt = w.rt
    /\ fsm = [state |-> NoneV, rules |-> EmptyDict, tracer |-> <<>>]
    /\ ctx = NoCtx
    /\ ets = [k \in ErrorKinds |-> NewErrorTracer(k)]
    /\ last = NoLast
    /\ calls = 0

\* sm.append(v, stack=stack)
StackAppendCall(v, stack) ==
    /\ Len(last.ops) < MaxOps
    /\ sm' = [sm EXCEPT !.stacks = StackAppend(@, v, stack)]
    /\ last' = [last EXCEPT !.ops = Append(@, StackOp("append", stack, v, NoneV, 0, 0))]
    /\ UNCHANGED <<machine, fsm, ctx, ets, rt, calls>>

\* sm.pop(stack=stack)
StackPopCall(stack) ==
    /\ Len(last.ops) < MaxOps
    /\ sm' = [sm EXCEPT !.stacks = StackPop(@, stack)]
    /\ last' = [last EXCEPT !.ops = Append(@, StackOp("pop", stack, NoneV,
                                                      StackPopped(sm.stacks, stack), 0, 0))]
    /\ UNCHANGED <<machine, fsm, ctx, ets, rt, calls>>

\* sm.len(stack=stack)
StackLenCall(stack) ==
    /\ Len(last.ops) < MaxOps
    /\ \E r \in {StackLen(sm.stacks, stack)} :
          /\ sm' = [sm EXCEPT !.stacks = r.stacks]
          /\ last' = [last EXCEPT !.ops = Append(@, StackOp("len", stack, NoneV, NoneV,
                                                            r.n, 0))]
    /\ UNCHANGED <<machine, fsm, ctx, ets, rt, calls>>

\* sm.input(i) of the runs with direct calls on the stacks
StackInput(i) == Len(last.ops) < MaxOps /\ CoreInputWithin(i, MaxOps)

NextStack ==
    \/ \E v \in StackValues, stack \in StackNames : StackAppendCall(v, stack)
    \/ \E stack \in StackNames : StackPopCall(stack)
    \/ \E stack \in StackNames : StackLenCall(stack)
    \/ \E i \in Inputs : StackInput(i)

SpecStack == InitStack /\ [][NextStack]_vars

InitLong == InitHistory \/ InitHistoryCore \/ InitHistoryStack \/ InitWired

NextHistory ==
    \/ \E i \in Inputs : SmallCallWithin(i, MaxHistoryCalls)
    \/ \E i \in Inputs : CoreInputWithin(i, MaxHistoryCalls)

SpecHistory == InitLong /\ [][NextHistory]_vars

(***************************************************************************)
(* What the last call did, read from its log, and what the rule table it   *)
(* ran on prescribes.                                                      *)
(***************************************************************************)
Range(f) == {f[x] : x \in DOMAIN f}

Small == last.engine = "small"
Core == last.engine = "core"

\* The events of the last call of the given kinds, in order
Events(kinds) == SelectSeq(last.log, LAMBDA e : e.ev \in kinds)

\* The rules whose field `what` the last call evaluated, in order
Evaluated(what) == [n \in DOMAIN Events({what}) |-> Events({what})[n].rule]

Emitted(tp) == Events({tp}) # <<>>

\* The rules the last call had to try, in the prescribed order: those of the state at
\* entry in insertion order, then the wildcard rules in insertion order
Order ==
    Get(last.rules, last.entry, <<>>)
    \o Get(last.rules, IF Small THEN Ellipsis ELSE NoneV, <<>>)

\* Whether the test of rule r is truthy for the input of the last call
Matches(r) ==
    IF Small THEN Truthy(EvalTest(r.test, last.input))
    ELSE Truthy(CoreEvalTest(r.test, last.input,
                             TransitionInfo(last.entry, r.dst, calls, NoneV)))

\* The position in Order of the first rule whose test is truthy, 0 if there is none
First ==
    IF \E k \in DOMAIN Order : Matches(Order[k])
    THEN CHOOSE k \in DOMAIN Order :
            (Matches(Order[k]) /\ \A j \in 1..(k - 1) : ~Matches(Order[j]))
    ELSE 0

\* The response and the destination the first matching rule prescribes
Response ==
    IF Small THEN EvalAction(Order[First].action, last.input)
    ELSE CoreEvalAction(Order[First].action, last.input,
                        TransitionInfo(last.entry, Order[First].dst, calls, TrueV))

Dest == EvalDest(Order[First].dest, last.entry)

NoError == last.err.kind = "none"

C2_StateAfterCall ==
    (Small /\ last.done) =>
        IF First > 0 /\ Dest # Ellipsis
        THEN fsm.state = Dest /\ last.assigns = 1
        ELSE fsm.state = last.entry /\ last.assigns = 0

\* C2 witness: a returned call that changed the state
C2_Witness ==
    /\ Small /\ last.done /\ First > 0 /\ Dest # Ellipsis
    /\ Dest # last.entry /\ fsm.state = Dest /\ last.assigns = 1

\* The input counts the last call of StateMachineCore.input handed to the tracer and
\* to the unrecognized handler
CoreCounts ==
    {e.t.t_info.count : e \in Range(Events({"tracer"}))}
    \cup {e.c : e \in Range(Events({"unrecognized"}))}

\* C3: after N calls the input counter is N (StateMachineCore.i_count; input_count of
\* the ContextTracer of a machine built by statemachine()), whether the inputs matched,
\* did not match or ended in a raised error; the N-th call is recorded with count N.
C3_InputCounter ==
    /\ machine = "core" =>
          /\ sm.i_count = calls
          /\ Core => CoreCounts = {calls}
          /\ (Core /\ last.err.kind = "ValueError") => last.err.input_count = calls
    /\ (machine = "small" /\ "ctx" \in Range(fsm.tracer)) =>
          /\ ctx.input_count = calls
          /\ Small => ctx.context.input_count = calls
          /\ (Small /\ last.err.kind = "UnrecognizedInputError") =>
                last.err.input_count = calls

\* C3 witness: the third call ended in a raised error after one input that fired a rule
\* and one that did not (its record carries the unrecognized marker)
C3_Witness ==
    /\ Small /\ calls = 3 /\ ~NoError /\ ctx.input_count = 3
    /\ \E h \in Range(ctx.history) : "response" \in DOMAIN h
    /\ \E h \in Range(ctx.history) : "unrecognized" \in DOMAIN h

\* C4: a smallmachine.StateMachine with no checkpoint observer (the default tracer, or
\* statemachine(lenient=True)) never ends a call in an error; a call in which no rule
\* matches emits Unrecognized, returns None and leaves the state unchanged.
C4_NoCheckpointNoError ==
    (Small /\ Range(fsm.tracer) \cap ErrorKinds = {}) =>
        /\ NoError /\ last.done
        /\ First = 0 =>
              /\ Emitted(TRACE_UNRECOGNIZED)
              /\ last.ret = NoneV
              /\ fsm.state = last.entry

\* C4 witness: a machine without checkpoints in a state without rules, whose call
\* returned None for its input
C4_Witness ==
    /\ Small /\ Range(fsm.tracer) \cap ErrorKinds = {}
    /\ Order = <<>> /\ Emitted(TRACE_NO_RULES) /\ Emitted(TRACE_UNRECOGNIZED)
    /\ last.done /\ last.ret = NoneV

\* The rules of the state at entry and the wildcard rules of the last call
OwnRules == Get(last.rules, last.entry, <<>>)
WildcardRules == Get(last.rules, Ellipsis, <<>>)

\* The destination of the fired rule is a state the table of the last call does not have
UnknownDest == First > 0 /\ Dest # Ellipsis /\ Dest \notin DOMAIN last.rules

Installed(kind) == kind \in Range(fsm.tracer)
DefaultCheckpoints == \A kind \in ErrorKinds : Installed(kind)

\* C5 as stated: with the default checkpoints a call raises NoRulesError exactly when
\* the current state has no rules of its own and the wildcard list is empty, the error
\* naming that state; when the state has no rules of its own but a wildcard rule
\* matches, no NoRulesError is raised, the wildcard rule's response is returned and a
\* Stay destination leaves the state unchanged.
C5_AsStated ==
    (Small /\ DefaultCheckpoints) =>
        /\ last.err.kind = "NoRulesError" <=> (OwnRules = <<>> /\ WildcardRules = <<>>)
        /\ last.err.kind = "NoRulesError" => last.err.state = last.entry
        /\ (OwnRules = <<>> /\ First > 0) =>
              /\ last.err.kind # "NoRulesError"
              /\ last.done /\ last.ret = Response
              /\ Dest = Ellipsis => fsm.state = last.entry

\* C5 amended: as stated, except that the wildcard rule's response is returned only if
\* its resolved destination is Stay or a key of the table; otherwise the call raises
\* UnknownStateError and the state stays the state at entry.
C5_NoRulesError ==
    (Small /\ DefaultCheckpoints) =>
        /\ last.err.kind = "NoRulesError" <=> (OwnRules = <<>> /\ WildcardRules = <<>>)
        /\ last.err.kind = "NoRulesError" => last.err.state = last.entry
        /\ (OwnRules = <<>> /\ First > 0) =>
              /\ last.err.kind # "NoRulesError"
              /\ IF UnknownDest
                 THEN last.err.kind = "UnknownStateError" /\ fsm.state = last.entry
                 ELSE last.done /\ last.ret = Response
              /\ Dest = Ellipsis => fsm.state = last.entry

\* C5 witness: default checkpoints, a state without rules of its own, the wildcard echo
\* rule answered and the state stayed
C5_Witness ==
    /\ Small /\ DefaultCheckpoints
    /\ OwnRules = <<>> /\ First > 0 /\ Dest = Ellipsis
    /\ last.done /\ last.ret = "echo" /\ fsm.state = last.entry

\* C6: with the UnrecognizedInputError checkpoint installed, a call in a state with at
\* least one applicable rule, none of whose tests is truthy for the input, raises
\* UnrecognizedInputError recording the input of that call and the state at its entry.
C6_UnrecognizedInputError ==
    (Small /\ Installed("UnrecognizedInputError") /\ Order # <<>> /\ First = 0) =>
        /\ last.err.kind = "UnrecognizedInputError"
        /\ last.err.input = last.input
        /\ last.err.state = last.entry

\* C6 witness: the error is raised in state B for input y, after an earlier call with
\* another input in another state
C6_Witness ==
    /\ Small /\ DefaultCheckpoints /\ calls >= 2
    /\ last.err.kind = "UnrecognizedInputError"
    /\ last.entry = "B" /\ last.input = "y"
    /\ last.err.input = "y" /\ last.err.state = "B"

\* C7: with the UnknownStateError checkpoint installed, when a rule fires and its
\* resolved destination is not Stay and not a key of the table, the call raises
\* UnknownStateError naming that destination.
C7_UnknownStateError ==
    (Small /\ Installed("UnknownStateError") /\ UnknownDest) =>
        /\ last.err.kind = "UnknownStateError"
        /\ last.err.new_state = Dest

\* C7 witness: the error names C, which the table does not have
C7_Witness ==
    /\ Small /\ DefaultCheckpoints /\ UnknownDest /\ Dest = "C"
    /\ last.err.kind = "UnknownStateError" /\ last.err.new_state = "C"

\* C8: UnknownStateReached is emitted in a call exactly when a rule fires in it whose
\* resolved destination is not Stay and not a key of the table at that moment; a rule
\* with a destination that is not a key causes no event and no error in a call in which
\* it does not fire, nor when the destination was added before it fires.
C8_UnknownStateReached ==
    Small =>
        /\ Emitted(TRACE_UNKNOWN_STATE) <=> UnknownDest
        /\ last.err.kind = "UnknownStateError" => UnknownDest

\* C8 witness: a rule to C fired after C was added to the table (no table starts with
\* C): no event, no error, the machine is in C
C8_Witness ==
    /\ Small /\ DefaultCheckpoints
    /\ First > 0 /\ Dest = "C" /\ "C" \in DOMAIN last.rules
    /\ ~Emitted(TRACE_UNKNOWN_STATE) /\ NoError /\ fsm.state = "C"

\* C9: without an UnknownStateError checkpoint, when the fired rule's resolved
\* destination is not Stay and absent from the table the engine emits
\* UnknownStateReached, still sets its state to that destination and returns the
\* rule's response.
C9_UnknownStateEntered ==
    (Small /\ ~Installed("UnknownStateError") /\ UnknownDest) =>
        /\ Emitted(TRACE_UNKNOWN_STATE)
        /\ fsm.state = Dest
        /\ last.done /\ last.ret = Response

\* C9 witness: the machine entered C, which the table does not have, with the
\* ContextTracer marking the unknown state
C9_Witness ==
    /\ Small /\ ~Installed("UnknownStateError") /\ Installed("ctx") /\ UnknownDest
    /\ Emitted(TRACE_UNKNOWN_STATE) /\ fsm.state = "C" /\ Dest = "C"
    /\ "unknown_state" \in DOMAIN ctx.context
    /\ last.done

\* What the last call evaluated, emitted and assigned, in order
Kinds == [p \in DOMAIN last.log |-> last.log[p].ev]

\* The order a call goes through: Input, (NoRules), RuleConsidered and the test for each
\* rule tried, then Unrecognized or, for the firing rule, TestSucceeded, the action,
\* ActionEvaluated, the destination, DestinationResolved, (UnknownStateReached), and
\* the assignment of the state last
ExpectedKinds ==
    LET n == IF First = 0 THEN Len(Order) ELSE First
    IN <<TRACE_INPUT>>
       \o (IF Order = <<>> THEN <<TRACE_NO_RULES>> ELSE <<>>)
       \o [p \in 1..(2 * n) |-> IF p % 2 = 1 THEN TRACE_RULE ELSE "test"]
       \o (IF First = 0 THEN <<TRACE_UNRECOGNIZED>>
           ELSE <<TRACE_RESULT, "action", TRACE_RESPONSE, "dest", TRACE_NEW_STATE>>
                \o (IF UnknownDest THEN <<TRACE_UNKNOWN_STATE>> ELSE <<>>)
                \o (IF Dest # Ellipsis THEN <<"assign">> ELSE <<>>))

\* C10: every smallmachine call emits and evaluates in the order of ExpectedKinds, up to
\* the tracepoint at which a checkpoint raises, if one does: RuleConsidered of a rule
\* comes right before its test, ActionEvaluated carries the response and
\* DestinationResolved the new state, and everything before the assignment of the state
\* happens in the state at entry.
C10_TracepointOrder ==
    Small =>
        /\ Kinds = SubSeq(ExpectedKinds, 1, Len(Kinds))
        /\ NoError => Kinds = ExpectedKinds
        /\ ~NoError => Kinds[Len(Kinds)] = ErrorPoint(last.err.kind)
        /\ \A p \in DOMAIN last.log :
              /\ last.log[p].ev = "test" =>
                    /\ last.log[p - 1].vals.label = last.log[p].rule.label
                    /\ last.log[p - 1].vals.test = last.log[p].rule.test
              /\ last.log[p].ev = TRACE_RESPONSE => last.log[p].vals.response = Response
              /\ last.log[p].ev = TRACE_NEW_STATE => last.log[p].vals.new_state = Dest
              /\ last.log[p].ev # "assign" => last.log[p].st = last.entry

\* C10 witness: a call that tried two rules, fired the second, reached an unknown state
\* and entered it
C10_Witness ==
    /\ Small /\ NoError /\ First = 2 /\ UnknownDest
    /\ Kinds = ExpectedKinds /\ Len(Kinds) = 12
    /\ fsm.state = Dest /\ fsm.state # last.entry

\* The tracepoint events of the last call, in order
Tracepoints ==
    {TRACE_INPUT, TRACE_NO_RULES, TRACE_RULE, TRACE_RESULT, TRACE_RESPONSE, TRACE_NEW_STATE,
     TRACE_UNRECOGNIZED, TRACE_UNKNOWN_STATE}

TraceEvents == Events(Tracepoints)

\* The position of a tracer in the list the machine was built with, 0 if it is not in it
Position(name) ==
    IF name \in Range(fsm.tracer) THEN CHOOSE n \in DOMAIN fsm.tracer : fsm.tracer[n] = name
    ELSE 0

\* Tracer `name` was called with event e and with no event since: the ContextTracer holds
\* its tracepoint and fields, an ErrorTracer its fields and, last in its trace, its line
Received(name, e) ==
    IF name = "ctx"
    THEN /\ Get(ctx.context, "tracepoint", NoneV) = e.ev
         /\ \A key \in DOMAIN e.vals : Get(ctx.context, key, NoneV) = e.vals[key]
    ELSE /\ ets[name].trace # <<>>
         /\ ets[name].trace[Len(ets[name].trace)] = Format(e.ev, e.vals)
         /\ \A key \in DOMAIN e.vals : Get(ets[name].context, key, NoneV) = e.vals[key]

\* C11: the tracers of a machine built by statemachine() get every tracepoint in the
\* order of registration, the ContextTracer first; when a checkpoint raises, the call
\* ends in that error without returning, the tracers registered before it (the
\* ContextTracer among them) have received the event that triggered it and hold its
\* fields, and the tracers registered after it have not received it: the last event they
\* saw is the one before.
C11_MultiTracerOrder ==
    (Small /\ fsm.tracer # <<>>) =>
        LET e == TraceEvents[Len(TraceEvents)]
            k == IF NoError THEN Len(fsm.tracer) ELSE Position(last.err.kind)
        IN /\ fsm.tracer[1] = "ctx"
           /\ ~NoError => /\ ~last.done
                          /\ k > 1
                          /\ e.ev = ErrorPoint(last.err.kind)
           /\ \A n \in DOMAIN fsm.tracer :
                 IF n <= k THEN Received(fsm.tracer[n], e)
                 ELSE /\ ~Received(fsm.tracer[n], e)
                      /\ Received(fsm.tracer[n], TraceEvents[Len(TraceEvents) - 1])

\* C11 witness: UnrecognizedInputError raised in a second call: the ContextTracer and the
\* NoRulesError checkpoint before it saw the Unrecognized event, the UnknownStateError
\* checkpoint after it did not
C11_Witness ==
    /\ Small /\ DefaultCheckpoints /\ calls >= 2 /\ ~last.done
    /\ last.err.kind = "UnrecognizedInputError"
    /\ "unrecognized" \in DOMAIN ctx.context
    /\ Received("NoRulesError", TraceEvents[Len(TraceEvents)])
    /\ ~Received("UnknownStateError", TraceEvents[Len(TraceEvents)])

\* The first calls of the machine, all of them so far, each fired a rule in the same state
\* and left the machine in it, under a ContextTracer that compacts
LoopsOnly == Small /\ Installed("ctx") /\ ctx.compact /\ calls > 0 /\ last.run = calls

\* C12 as stated: with a history capacity K >= 1 and compaction, after M > K inputs in a row
\* that each fire a self-transition rule in the same state, one snapshot is retained (the
\* history buffer is empty, the context is the snapshot) and its loop_count is M.
C12_AsStated ==
    (LoopsOnly /\ ctx.maxlen >= 1 /\ calls > ctx.maxlen) =>
        /\ ctx.history = <<>>
        /\ "loop_count" \in DOMAIN ctx.context
        /\ ctx.context.loop_count = calls

\* C12 amended: with a history capacity K >= 2 and compaction, after the first M > K inputs
\* of a machine each fired a self-transition rule in the same state, one snapshot is
\* retained (the history buffer is empty, the context is the snapshot) and its loop_count
\* is M - 1, the number of snapshots folded into it; with K = 1 nothing is compacted: the
\* buffer holds the snapshot of the input before and no snapshot has a loop_count.
C12_LoopCompaction ==
    /\ (LoopsOnly /\ ctx.maxlen >= 2 /\ calls > ctx.maxlen) =>
          /\ ctx.history = <<>>
          /\ "loop_count" \in DOMAIN ctx.context
          /\ ctx.context.loop_count = calls - 1
    /\ (LoopsOnly /\ ctx.maxlen = 1 /\ calls > ctx.maxlen) =>
          /\ Len(ctx.history) = 1
          /\ ctx.history[1].input_count = calls - 1
          /\ "loop_count" \notin DOMAIN ctx.context \cup DOMAIN ctx.history[1]

\* C12 witness: capacity 2, five inputs that looped in A: one snapshot with loop_count 4
C12_Witness ==
    /\ LoopsOnly /\ ctx.maxlen = 2 /\ calls = 5 /\ fsm.state = "A"
    /\ ctx.history = <<>> /\ ctx.context.loop_count = 4 /\ ctx.context.input_count = 5

\* The snapshots a ContextTracer holds, oldest first: the history buffer, then the context
Snapshots(c) == IF DOMAIN c.context # {} THEN Append(c.history, c.context) ELSE c.history

\* The n-th call left the machine in the state it found it in
SelfTransition(n) == last.trail[n].before = last.trail[n].after

\* What a call removed from the ContextTracer's snapshots and from RecentTracer.buffer
RemovedSnapshots == Range(Snapshots(ctx)) \ Range(ctx'.history)
RemovedEntries == Range(rt.buffer) \ Range(rt'.buffer)

\* C13: a call removes a snapshot of a state-changing transition from the history of a
\* ContextTracer, or such an entry from the buffer of a RecentTracer, only by capacity
\* eviction (it was the oldest of a full buffer); everything else a call removes, that
\* is everything compaction pops, is the record of a call that started in the state the
\* record names and left the machine in that state. For every capacity and input sequence.
C13_CompactionKeepsChanges ==
    [][ /\ \A e \in RemovedSnapshots :
              \/ e.state = last.trail[e.input_count].before /\ SelfTransition(e.input_count)
              \/ /\ ctx.maxlen >= 0 /\ Len(Snapshots(ctx)) > ctx.maxlen
                 /\ e = Snapshots(ctx)[1]
        /\ \A e \in RemovedEntries :
              \/ /\ e.t.t_info.state = last.trail[e.t.t_info.count].before
                 /\ e.t.end = last.trail[e.t.t_info.count].after
                 /\ SelfTransition(e.t.t_info.count)
              \/ /\ rt.maxlen >= 0 /\ Len(rt.buffer) = rt.maxlen
                 /\ e = rt.buffer[1]
                 /\ Len(rt'.buffer) = rt.maxlen
                 /\ SubSeq(rt'.buffer, 1, rt.maxlen - 1) = Tail(rt.buffer) ]_vars

\* C13 witness: after A -> B, B -> A and three loops in A, the loops are folded into the
\* context and the two snapshots of the state changes are still in the history
C13_Witness ==
    /\ Small /\ calls = 5 /\ ctx.compact
    /\ Len(ctx.history) = 2 /\ Get(ctx.context, "loop_count", 0) = 2
    /\ \A n \in 1..2 : ctx.history[n].input_count = n /\ ~SelfTransition(n)
    /\ \A n \in 3..5 : SelfTransition(n)

\* The loop_count of a snapshot, 0 if it has none
LoopCountOf(e) == Get(e, "loop_count", 0)

RECURSIVE SumLoopCount(_)
SumLoopCount(snapshots) ==
    IF snapshots = <<>> THEN 0
    ELSE LoopCountOf(Head(snapshots)) + SumLoopCount(Tail(snapshots))

Front(q) == SubSeq(q, 1, Len(q) - 1)

\* What the history buffer of capacity maxlen holds once the context was appended to it
KeptSnapshots ==
    IF ctx.maxlen >= 0 /\ Len(Snapshots(ctx)) > ctx.maxlen
    THEN SubSeq(Snapshots(ctx), Len(Snapshots(ctx)) - ctx.maxlen + 1, Len(Snapshots(ctx)))
    ELSE Snapshots(ctx)

\* C15: ContextTracer.history and RecentTracer.buffer never hold more than their capacity
\* K; a call appends the context to the history, evicting the oldest snapshot if and only
\* if the buffer was full and keeping the others in order (compaction then pops at most
\* two from the end); a followed transition appends an entry to RecentTracer.buffer,
\* either in place of the latest (compaction) or evicting the oldest if and only if the
\* buffer was full; with a capacity of None (negative for RecentTracer) nothing is evicted.
C15_Capacity ==
    [][ /\ ctx'.maxlen = ctx.maxlen /\ rt'.maxlen = rt.maxlen
        /\ ctx.maxlen >= 0 => Len(ctx'.history) <= ctx.maxlen
        /\ rt.maxlen >= 0 => Len(rt'.buffer) <= rt.maxlen
        /\ \E p \in 0..2 :
              /\ p <= Len(KeptSnapshots)
              /\ ctx'.history = SubSeq(KeptSnapshots, 1, Len(KeptSnapshots) - p)
        /\ \/ rt'.buffer = rt.buffer
           \/ /\ rt.maxlen < 0 \/ Len(rt.buffer) < rt.maxlen
              /\ Front(rt'.buffer) = rt.buffer
           \/ /\ rt.maxlen > 0 /\ Len(rt.buffer) = rt.maxlen
              /\ Front(rt'.buffer) = Tail(rt.buffer)
           \/ /\ rt.buffer # <<>> /\ rt'.buffer # <<>>
              /\ Front(rt'.buffer) = Front(rt.buffer) ]_vars

\* C15 witness: capacity 2, five calls that each changed the state: nothing was folded,
\* the buffer is full and holds the third and the fourth snapshot, the first two were
\* evicted
C15_Witness ==
    /\ Small /\ Installed("ctx") /\ ctx.compact /\ ctx.maxlen = 2 /\ calls = 5
    /\ Len(ctx.history) = 2
    /\ ctx.history[1].input_count = 3 /\ ctx.history[2].input_count = 4
    /\ \A n \in 1..5 : ~SelfTransition(n)
    /\ SumLoopCount(Snapshots(ctx)) = 0

\* The last n elements of a sequence, all of them if there are fewer
LastN(q, n) == IF Len(q) > n THEN SubSeq(q, Len(q) - n + 1, Len(q)) ELSE q

\* The lines of the tracepoint events of the last call, rendered, in order
TraceLines == [n \in DOMAIN TraceEvents |-> Format(TraceEvents[n].ev, TraceEvents[n].vals)]

\* C16 as stated: the trace of an error raised by a default checkpoint has one entry for
\* each entry of ContextTracer.format_trace() at the moment of the raise: one for each
\* snapshot retained after loop compaction, then one for the context.
C16_AsStated ==
    (Small /\ ~NoError) => Len(last.err.trace_lines) = Len(format_trace(ctx))

\* C16 amended: the trace of an error raised by a default checkpoint is the trace the
\* raising ErrorTracer keeps itself: the rendered line of every tracepoint event it
\* received since it was built, one line for each event and none folded, the most recent
\* 10 of them, oldest first, the last being the line of the event that triggered the error.
C16_ErrorTrace ==
    [][ (Small /\ ~NoError)' =>
           /\ last'.err.trace_lines = LastN(ets[last'.err.kind].trace \o TraceLines', ErrorTraceDepth)
           /\ last'.err.trace_lines = ets'[last'.err.kind].trace
           /\ TraceLines'[Len(TraceLines')][1] = ErrorPoint(last'.err.kind)
           /\ \A k \in Range(fsm.tracer) \ {"ctx"} :
                 ets'[k].trace =
                    LastN(ets[k].trace
                          \o (IF Position(k) <= Position(last'.err.kind) THEN TraceLines'
                              ELSE Front(TraceLines')),
                          ErrorTraceDepth) ]_vars

\* C16 witness: four loops in A, then a rule to the unknown state C: the history is
\* folded into one snapshot, with the loops counted, and the trace of the
\* UnknownStateError has 10 lines, its oldest lines evicted
C16_Witness ==
    /\ Small /\ DefaultCheckpoints /\ calls = 5
    /\ last.err.kind = "UnknownStateError"
    /\ Len(last.err.trace_lines) = 10
    /\ Len(format_trace(ctx)) = 1 /\ LoopCountOf(ctx.context) = 4
    /\ last.err.trace_lines[10] = Format(TRACE_UNKNOWN_STATE, [new_state |-> "C"])

\* The fields the events give a tracer that received the first n tracepoint events of the
\* last call, each with the value of the latest event that carries it
EventFields(n) ==
    LET keys == UNION {DOMAIN TraceEvents[p].vals : p \in 1..n}
        Latest(key) == CHOOSE p \in 1..n :
                          /\ key \in DOMAIN TraceEvents[p].vals
                          /\ \A q \in (p + 1)..n : key \notin DOMAIN TraceEvents[q].vals
    IN [key \in keys |-> TraceEvents[Latest(key)].vals[key]]

\* The markers ContextTracer adds for the anomaly tracepoints of the last call
MarkerFields ==
    [key \in {k \in {"no_rules", "unrecognized", "unknown_state"} :
                 \/ k = "no_rules" /\ Emitted(TRACE_NO_RULES)
                 \/ k = "unrecognized" /\ Emitted(TRACE_UNRECOGNIZED)
                 \/ k = "unknown_state" /\ Emitted(TRACE_UNKNOWN_STATE)} |->
        CASE key = "no_rules" -> "(No rules)"
          [] key = "unrecognized" -> "(No match)"
          [] key = "unknown_state" -> "(Unknown state)"]

\* The number of events of the last call tracer `name` received
Delivered(name) ==
    IF NoError \/ Position(name) <= Position(last.err.kind) THEN Len(TraceEvents)
    ELSE Len(TraceEvents) - 1

\* The context holds what this call gave it and nothing else
FreshContext ==
    (Small /\ Installed("ctx")) =>
        /\ [k \in DOMAIN ctx.context \ {"loop_count"} |-> ctx.context[k]]
             = Update(Update(EventFields(Len(TraceEvents)), MarkerFields),
                      [tracepoint |-> TraceEvents[Len(TraceEvents)].ev, input_count |-> calls])
        /\ ctx.context.state = last.entry /\ ctx.context.input = last.input
        /\ "loop_count" \in DOMAIN ctx.context => Emitted(TRACE_NEW_STATE)
        /\ \A k \in Range(fsm.tracer) \ {"ctx"} :
              ets[k].context = Update(EventFields(Delivered(k)), [input_count |-> calls])

\* C17: the context is rebuilt on every call. Right after the Input tracepoint of a call
\* the context of the ContextTracer holds state, input, input_count and tracepoint of
\* this call and nothing else, the context of each ErrorTracer state, input and
\* input_count; when the call ends they hold the fields of the events of this call only
\* (and loop_count only if this call folded); and every snapshot in the history after
\* the call is, field for field, a snapshot the tracer held before the call.
C17_FreshContext ==
    [][ /\ FreshContext'
        /\ (Small /\ Installed("ctx"))' =>
              /\ ContextTracerCall(ctx, TRACE_INPUT,
                                   [state |-> fsm.state, input |-> last'.input]).context
                   = [state |-> fsm.state, input |-> last'.input, input_count |-> calls',
                      tracepoint |-> TRACE_INPUT]
              /\ \A k \in Range(fsm.tracer) \ {"ctx"} :
                    ErrorTracerCall(ets[k], TRACE_INPUT,
                                    [state |-> fsm.state, input |-> last'.input]).et.context
                      = [state |-> fsm.state, input |-> last'.input, input_count |-> calls']
        /\ Range(ctx'.history) \subseteq Range(Snapshots(ctx)) ]_vars

\* C17 witness: three loops in A and a call from A to B are folded into one snapshot
\* with a response, a new state and a loop_count; the fifth call matched no rule in B
\* and its context has none of these
C17_Witness ==
    /\ Small /\ Installed("ctx") /\ calls = 5 /\ ctx.history # <<>>
    /\ {"response", "new_state", "loop_count"} \subseteq DOMAIN ctx.history[Len(ctx.history)]
    /\ DOMAIN ctx.context =
          {"state", "input", "input_count", "tracepoint", "label", "test", "action", "dest",
           "unrecognized"}
    /\ ctx.context.state = "B" /\ ctx.context.input_count = 5

\* C18 as stated: the current state of an engine that was started in a state other than
\* the wildcard marker is never the wildcard marker: "..." for smallmachine.StateMachine,
\* None for statemachine.StateMachine and StackMachine, whatever the rules and actions
\* (appendStateAction and popStateAction among them) the calls ran.
C18_AsStated ==
    /\ machine = "small" => fsm.state # Ellipsis
    /\ machine = "core" => sm.state # NoneV

\* C18, the engines without a stack: the claim as stated holds of smallmachine.StateMachine
\* and of statemachine.StateMachine
C18_WithoutStack ==
    /\ machine = "small" => fsm.state # Ellipsis
    /\ (machine = "core" /\ sm.stacks = EmptyDict) => sm.state # NoneV

\* The calls of the unrecognized handler and of the tracer in the last call, in order
Unrecognized == Events({"unrecognized"})
TracerCalls == Events({"tracer"})

\* C19: StateMachine.input calls the unrecognized handler exactly once if no rule of the
\* current state nor of the global rules has a truthy test (also when there are no
\* rules), after all of them were tested, with the input, the state at entry and the
\* count of this input, and not at all otherwise; the state is then the state at entry.
\* The default handler raises ValueError naming them, with unrecognized=False input()
\* returns None and raises nothing.
C19_UnrecognizedHandler ==
    Core =>
        /\ Len(Unrecognized) = (IF First = 0 THEN 1 ELSE 0)
        /\ First > 0 => NoError /\ last.done
        /\ First = 0 =>
              /\ Evaluated("test") = Order
              /\ last.log[Len(last.log)].ev = "unrecognized"
              /\ Unrecognized[1].i = last.input
              /\ Unrecognized[1].s = last.entry
              /\ Unrecognized[1].c = calls
              /\ sm.state = last.entry
              /\ sm.unrecognized = "throw" =>
                    /\ ~last.done
                    /\ last.err.kind = "ValueError"
                    /\ last.err.input = last.input
                    /\ last.err.state = last.entry
                    /\ last.err.input_count = calls
              /\ sm.unrecognized = "noop" =>
                    NoError /\ last.done /\ last.ret = NoneV

\* C19 witness: the default handler raised for the second input, in state B, after the
\* one rule that applies there, a global rule, was tested
C19_Witness ==
    /\ Core /\ sm.unrecognized = "throw" /\ calls = 2
    /\ last.entry = "B" /\ sm.state = "B"
    /\ Len(Order) = 1 /\ First = 0 /\ Len(Evaluated("test")) = 1
    /\ last.err.kind = "ValueError" /\ last.err.input_count = 2

\* What the last call of StateMachineCore.input did, in order
CoreKinds == [p \in DOMAIN last.log |-> last.log[p].ev]

\* The order StateMachineCore.input goes through: the test and the tracer for each rule
\* that does not match, then the unrecognized handler or, for the first rule that
\* matches, its test, the state change if it has a destination, the action, the tracer
ExpectedCoreKinds ==
    LET n == IF First = 0 THEN Len(Order) ELSE First - 1
    IN [p \in 1..(2 * n) |-> IF p % 2 = 1 THEN "test" ELSE "tracer"]
       \o (IF First = 0 THEN <<"unrecognized">>
           ELSE <<"test">> \o (IF Order[First].dst # NoneV THEN <<"assign">> ELSE <<>>)
                \o <<"action", "tracer">>)

\* C20: StateMachineCore.input calls the tracer once for each rule it tests, in the order
\* of the tests and after the test: with the falsy result, no output and the unchanged
\* state for each rule before the first that matches, and for that rule after its action
\* ran, with the truthy result, the output of the action and, as end, the state the
\* machine is in after the action; not for the rules after it. Every TraceInfo of the
\* call carries the input, the count of this input and the state at entry.
C20_TracerCalls ==
    Core =>
        /\ CoreKinds = ExpectedCoreKinds
        /\ Len(TracerCalls) = (IF First = 0 THEN Len(Order) ELSE First)
        /\ \A k \in DOMAIN TracerCalls :
              LET t == TracerCalls[k].t
              IN /\ TracerCalls[k].i = last.input
                 /\ t.test = Order[k].test /\ t.action = Order[k].action
                 /\ t.tag = Order[k].tag
                 /\ t.t_info.dst = Order[k].dst
                 /\ t.t_info.count = calls
                 /\ t.t_info.state = last.entry
                 /\ IF k = First
                    THEN Truthy(t.t_info.result) /\ t.out = last.ret /\ t.end = sm.state
                    ELSE ~Truthy(t.t_info.result) /\ t.out = NoneV /\ t.end = last.entry

\* C20 witness: a StackMachine in B, with A on its stack; the second rule matched, has no
\* destination, and its action popped the state: two tracer calls, the second with the
\* end A the action set
C20_Witness ==
    /\ Core /\ sm.stacks # EmptyDict /\ NoError
    /\ last.entry = "B" /\ First = 2 /\ Order[2].dst = NoneV
    /\ Len(TracerCalls) = 2
    /\ TracerCalls[1].t.end = "B" /\ TracerCalls[2].t.end = "A" /\ sm.state = "A"

\* The calls so far that fired a rule (followed a transition), by input count
Followed == {n \in DOMAIN last.trail : last.trail[n].fired}

\* The latest followed transitions that all started in the current state of
\* statemachine.StateMachine and stayed in it, with no other followed transition among
\* them: the run of self-transitions the machine is in, by input count
LoopRun ==
    {n \in Followed :
        \A p \in Followed : p >= n =>
            last.trail[p].before = sm.state /\ last.trail[p].after = sm.state}

\* The sum of the loop counts of the entries of RecentTracer.buffer
RECURSIVE SumLoops(_)
SumLoops(buffer) ==
    IF buffer = <<>> THEN 0 ELSE Head(buffer).loop_count + SumLoops(Tail(buffer))

\* What C21 says of the RecentTracer after a call, for the depths `depths` holds of
RecentLoops(depths) ==
    (Core /\ "rt" \in Range(sm.tracer)) =>
        /\ (rt.maxlen \in depths /\ LoopRun # {}) =>
              /\ rt.buffer # <<>>
              /\ LET e == rt.buffer[Len(rt.buffer)]
                 IN /\ e.loop_count = Cardinality(LoopRun)
                    /\ e.t.t_info.count \in LoopRun
                    /\ \A n \in LoopRun : n <= e.t.t_info.count
                    /\ last.trail[Len(last.trail)].fired => e.i = last.input
              /\ \A k \in 1..(Len(rt.buffer) - 1) : rt.buffer[k].t.t_info.count \notin LoopRun
        /\ rt.maxlen < 0 => SumLoops(rt.buffer) = Cardinality(Followed)

\* The last call tested no rule with a truthy result
NothingFollowed == \A k \in DOMAIN TracerCalls : ~Truthy(TracerCalls[k].t.t_info.result)

\* C21 as stated: RecentTracer records only followed transitions (a call in which no test
\* was truthy leaves the buffer as it was); after M >= 1 consecutive followed
\* self-transitions in one state the buffer holds exactly one entry for them, that of the
\* last input, with loop count M; with unlimited depth the loop counts sum to the number
\* of followed transitions. For every depth.
C21_AsStated ==
    [][ /\ (Core /\ NothingFollowed)' => rt'.buffer = rt.buffer
        /\ RecentLoops({-1} \cup 0..RecentDepth)' ]_vars

\* C21 amended: as stated, for a RecentTracer of depth 1 or more, or unlimited; a
\* RecentTracer of depth 0 retains no entry at all.
C21_RecentLoops ==
    [][ /\ (Core /\ NothingFollowed)' => rt'.buffer = rt.buffer
        /\ RecentLoops({-1} \cup 1..RecentDepth)'
        /\ rt.maxlen = 0 => rt'.buffer = <<>> ]_vars

\* C21 witness: depth 5; a loop in A, A -> B, then three loops in B, each by the global
\* rule after the falsy test of the rule of B: three entries, the third with loop count 3
\* for the fifth input
C21_Witness ==
    /\ Core /\ rt.maxlen = RecentDepth /\ calls = 5 /\ sm.state = "B"
    /\ LoopRun = {3, 4, 5} /\ Followed = 1..5
    /\ Len(rt.buffer) = 3
    /\ rt.buffer[3].loop_count = 3 /\ rt.buffer[3].t.t_info.count = 5
    /\ rt.buffer[3].t_count = 2
    /\ SumLoops(rt.buffer) = 5

\* What each tracer of StateMachine was called with in the last call, in order
Seen(to) == SelectSeq(last.seen, LAMBDA d : d.to = to)

\* The depth of the RecentTracer StateMachine.__init__ builds for a tracer argument
WiredDepth(tracer) ==
    IF tracer.kind = "int" THEN (IF tracer.n < 0 THEN -1 ELSE tracer.n) ELSE RecentDepth

\* The machine was built with unrecognized left at its default
DefaultHandler == Core /\ sm.args.unrecognized = TrueArg

\* C22: a statemachine.StateMachine built with unrecognized left at its default has a
\* RecentTracer that is called for every rule tested, with the arguments of the tracer
\* call, and that keeps at most 5 entries by default or the depth given as an integer
\* tracer argument (any number if negative); if a callable tracer was given too, it is
\* called first and then the RecentTracer, with the same arguments, for every rule
\* tested; and the call leaves the RecentTracer, the state, the result and the error
\* raised for unrecognized input as the call of the machine without the callable tracer
\* does.
C22_Wiring ==
    [][ DefaultHandler' =>
          /\ "rt" \in Range(sm'.tracer) /\ sm'.unrecognized = "throw"
          /\ rt'.maxlen = WiredDepth(sm'.args.tracer)
          /\ rt'.maxlen >= 0 => Len(rt'.buffer) <= rt'.maxlen
          /\ Len(Seen("rt")') = Len(TracerCalls')
          /\ \A k \in DOMAIN TracerCalls' :
                /\ Seen("rt")'[k].i = TracerCalls'[k].i
                /\ Seen("rt")'[k].t = TracerCalls'[k].t
          /\ sm'.args.tracer # CallableArg => Seen("custom")' = <<>>
          /\ sm'.args.tracer = CallableArg =>
                /\ Len(last'.seen) = 2 * Len(TracerCalls')
                /\ \A k \in DOMAIN TracerCalls' :
                      /\ last'.seen[2 * k - 1] = [to |-> "custom", i |-> TracerCalls'[k].i,
                                                  t |-> TracerCalls'[k].t]
                      /\ last'.seen[2 * k] = [to |-> "rt", i |-> TracerCalls'[k].i,
                                              t |-> TracerCalls'[k].t]
          /\ LET alone == CoreInputResult([sm EXCEPT !.tracer = <<"rt">>], rt, last'.input)
             IN /\ rt' = alone.rt
                /\ last'.err = alone.err
                /\ sm'.state = alone.state
                /\ last'.ret = alone.ret /\ last'.done = alone.done ]_vars

\* C22 witness: a machine with a callable tracer and the default handler; the fifth
\* input matched neither the rule of B nor any other: both tracers were called once, the
\* callable first, and the ValueError carries the trace of the three entries the
\* RecentTracer holds
C22_Witness ==
    /\ DefaultHandler /\ sm.args.tracer = CallableArg /\ calls = 5
    /\ last.err.kind = "ValueError" /\ sm.state = "B"
    /\ Len(last.seen) = 2 /\ last.seen[1].to = "custom" /\ last.seen[2].to = "rt"
    /\ Len(rt.buffer) = 3 /\ rt.maxlen = RecentDepth
    /\ last.err.trace_lines = formatTrace(rt.buffer)

\* The last step was a call of parse()
Parsed == last.parse.inputs # <<>>

\* Calling input() on each of the first k of the inputs in turn, from a machine s with
\* RecentTracer r: the call of the k-th, the machine and the tracer after it
RECURSIVE InTurn(_, _, _, _)
InTurn(s, r, inputs, k) ==
    LET before == IF k = 1 THEN [sm |-> s, rt |-> r] ELSE InTurn(s, r, inputs, k - 1)
        m == CoreInputResult(before.sm, before.rt, inputs[k])
    IN [m |-> m,
        sm |-> [before.sm EXCEPT !.state = m.state, !.i_count = m.i_count,
                                 !.stacks = m.stacks],
        rt |-> m.rt]

\* The values of a sequence that are not None, in order
NotNone(q) == SelectSeq(q, LAMBDA v : v # NoneV)

\* C23: parse(inputs) calls input() on the items one at a time and in order, and what it
\* yields is the results of these calls with the None results removed, in order (a
\* result of False is yielded); the state, the input count and the RecentTracer after it
\* are those after calling input() on each item in turn. If a call of input() raises,
\* parse() raises that error, has yielded the results of the calls before it and
\* consumes no item after it.
C23_Parse ==
    [][ Parsed' =>
          LET inputs == last'.parse.inputs
              turn == [k \in DOMAIN inputs |-> InTurn(sm, rt, inputs, k)]
              n == IF \E k \in DOMAIN inputs : Raised(turn[k].m)
                   THEN CHOOSE k \in DOMAIN inputs :
                           /\ Raised(turn[k].m)
                           /\ \A j \in 1..(k - 1) : ~Raised(turn[j].m)
                   ELSE Len(inputs)
              results == [k \in 1..(IF Raised(turn[n].m) THEN n - 1 ELSE n) |-> turn[k].m.ret]
          IN /\ last'.parse.yielded = NotNone(results)
             /\ sm' = turn[n].sm
             /\ rt' = turn[n].rt
             /\ sm'.i_count = sm.i_count + n
             /\ calls' = calls + n
             /\ last'.err = turn[n].m.err
             /\ last'.input = inputs[n] ]_vars

\* C23 witness: parse("xyx") from A: input() gave False, "y" and None, in this order, and
\* parse yielded False and "y"; the machine is back in A after three inputs
C23_Witness ==
    /\ Parsed /\ last.parse.inputs = <<"x", "y", "x">>
    /\ last.parse.yielded = <<FalseV, "y">>
    /\ sm.state = "A" /\ sm.i_count = 3 /\ NoError /\ last.ret = NoneV

\* C24 as stated: a call of smallmachine.StateMachine with an empty active rule list (no
\* rules of the current state, no wildcard rules) emits NoRules and not Unrecognized, and
\* returns None unless the NoRulesError checkpoint raises; no call emits both NoRules and
\* Unrecognized; a machine built with lenient=(NoRulesError,) raises nothing for an input
\* in a state with no rules.
C24_AsStated ==
    Small =>
        /\ ~(Emitted(TRACE_NO_RULES) /\ Emitted(TRACE_UNRECOGNIZED))
        /\ Order = <<>> =>
              /\ Emitted(TRACE_NO_RULES)
              /\ ~Installed("NoRulesError") => NoError /\ last.done /\ last.ret = NoneV

\* C24, what the code does: a call with an empty active rule list emits NoRules and, if
\* no checkpoint raised for it, Unrecognized too; only without the UnrecognizedInputError
\* checkpoint does it then return None
C24_BothAnomalies ==
    (Small /\ Order = <<>>) =>
        /\ Emitted(TRACE_NO_RULES)
        /\ ~Installed("NoRulesError") =>
              /\ Emitted(TRACE_UNRECOGNIZED)
              /\ IF Installed("UnrecognizedInputError")
                 THEN last.err.kind = "UnrecognizedInputError"
                 ELSE NoError /\ last.done /\ last.ret = NoneV

\* The state the machine was in when the action of the last call ran
ActionState == Events({"action"})[1].st

\* C25: StateMachineCore.input sets the state to the dst of the rule that matched, if it
\* is not None, before the action runs: the action runs in state dst (in the state at
\* entry if dst is None). The state after the call is the state the action left: the
\* state popStateAction popped, whatever dst is, and dst (or the state at entry) for an
\* action that does not assign the state; the tracer receives that state as end. The
\* TransitionInfo of every test and of the action has the state at entry as state:
\* appendStateAction pushes the state at entry, not dst.
C25_ActionOverridesDst ==
    [][ (Core /\ First > 0)' =>
          LET r == Order'[First']
              t == TracerCalls'[First'].t
          IN /\ ActionState' = (IF r.dst # NoneV THEN r.dst ELSE last'.entry)
             /\ r.dst # NoneV =>
                   \E p \in DOMAIN CoreKinds' :
                      /\ p > 1 /\ CoreKinds'[p] = "action" /\ CoreKinds'[p - 1] = "assign"
             /\ sm'.state = (IF r.action = Fn("popStateAction")
                             THEN StackPopped(sm.stacks, StateStack)
                             ELSE ActionState')
             /\ t.end = sm'.state
             /\ \A k \in DOMAIN TracerCalls' : TracerCalls'[k].t.t_info.state = last'.entry
             /\ r.action = Fn("appendStateAction") =>
                   /\ StackPopped(sm'.stacks, StateStack) = last'.entry
                   /\ StackPop(sm'.stacks, StateStack) = StackPop(StackAppend(sm.stacks, last'.entry, StateStack), StateStack) ]_vars

\* C25 witness: in B with A, pushed from A by a rule to B, on the state stack, the rule
\* with destination B and popStateAction fired: the action ran in B and the machine and
\* the end the tracer received are A
C25_Witness ==
    /\ Core /\ First > 0 /\ NoError
    /\ Order[First] = OverrideCoreRule
    /\ last.entry = "B" /\ ActionState = "B"
    /\ sm.state = "A" /\ TracerCalls[First].t.end = "A"
    /\ TracerCalls[First].t.t_info.state = "B" /\ TracerCalls[First].t.t_info.dst = "B"

\* The number of operations `op` on stack `stack` among ops[lo..hi]
OpCount(ops, lo, hi, op, stack) ==
    Cardinality({p \in lo..hi : ops[p].op = op /\ ops[p].stack = stack})

\* The pop ops[k] undoes the append ops[j]: they are on the same stack and the appends
\* and pops on it between them pair up, each pop after its append
Pairs(ops, j, k) ==
    /\ j < k
    /\ ops[j].op = "append" /\ ops[k].op = "pop" /\ ops[j].stack = ops[k].stack
    /\ \A p \in (j + 1)..(k - 1) :
          OpCount(ops, j + 1, p, "append", ops[j].stack)
             >= OpCount(ops, j + 1, p, "pop", ops[j].stack)
    /\ OpCount(ops, j + 1, k - 1, "append", ops[j].stack)
          = OpCount(ops, j + 1, k - 1, "pop", ops[j].stack)

\* The appends to a stack among ops that no pop has undone
Pending(ops, stack) ==
    {j \in DOMAIN ops :
        /\ ops[j].op = "append" /\ ops[j].stack = stack
        /\ ~\E k \in DOMAIN ops : Pairs(ops, j, k)}

\* The names of stacks the model uses
AllStackNames == StackNames \cup {StateStack}

\* C26: the stacks of a StackMachine are last-in first-out and independent: pop returns
\* the value of the latest append to that stack that no pop has returned yet, and None,
\* changing no stack, if there is none (the stack is empty or was never created); len
\* returns the number of appends not yet popped, 0 for a stack never created, and changes
\* no stack; an operation on one stack changes no other stack. When a rule with
\* popStateAction pops what a rule with appendStateAction pushed, the machine returns to
\* the state that rule was entered in, nested pairs in reverse order.
C26_StackLifo ==
    [][ LET ops == last'.ops
        IN /\ \A k \in DOMAIN ops :
                 /\ ops[k].op = "pop" =>
                       IF \E j \in DOMAIN ops : Pairs(ops, j, k)
                       THEN \E j \in DOMAIN ops : Pairs(ops, j, k) /\ ops[k].ret = ops[j].v
                       ELSE ops[k].ret = NoneV
                 /\ ops[k].op = "len" =>
                       ops[k].n = Cardinality(Pending(SubSeq(ops, 1, k), ops[k].stack))
           /\ \A stack \in AllStackNames :
                 StackLen(sm'.stacks, stack).n = Cardinality(Pending(ops, stack))
           /\ Len(ops) = Len(last.ops) + 1 =>
                 LET o == ops[Len(ops)]
                 IN /\ \A stack \in AllStackNames \ {o.stack} :
                          /\ stack \in DOMAIN sm'.stacks <=> stack \in DOMAIN sm.stacks
                          /\ stack \in DOMAIN sm.stacks => sm'.stacks[stack] = sm.stacks[stack]
                    /\ o.op = "len" => sm'.stacks = sm.stacks
                    /\ (o.op = "pop" /\ ~\E j \in DOMAIN ops : Pairs(ops, j, Len(ops))) =>
                          sm'.stacks = sm.stacks
           /\ \A j, k \in DOMAIN ops :
                 (Pairs(ops, j, k) /\ ops[k].stack = StateStack) =>
                    /\ ops[j].v = last'.trail[ops[j].call].before
                    /\ last'.trail[ops[k].call].after = last'.trail[ops[j].call].before ]_vars

\* C26 witness: x in A pushed A and went to B, x in B pushed B, y popped B and stayed in
\* B, y popped A: the machine is back in A and the state stack is empty
C26_Witness ==
    /\ Core /\ sm.stacks # EmptyDict /\ Len(last.ops) = 4 /\ calls = 4
    /\ [k \in 1..4 |-> last.ops[k].op] = <<"append", "append", "pop", "pop">>
    /\ last.ops[1].v = "A" /\ last.ops[2].v = "B"
    /\ last.ops[3].ret = "B" /\ last.ops[4].ret = "A"
    /\ sm.state = "A" /\ sm.stacks[StateStack] = <<>>
    /\ Pairs(last.ops, 1, 4) /\ Pairs(last.ops, 2, 3)

\* C27: when a call of smallmachine.StateMachine raises the error of a default checkpoint
\* (NoRulesError, UnrecognizedInputError, UnknownStateError), the call assigned no state:
\* the state is the state at entry, and for UnknownStateError not the unknown
\* destination; the call that follows it is evaluated in that same state, against the
\* rules the table has for it and the wildcard rules.
C27_StateAtEntryOnError ==
    [][ /\ (Small /\ ~NoError)' =>
              /\ last'.err.kind \in ErrorKinds
              /\ fsm'.state = last'.entry /\ fsm'.state = fsm.state
              /\ last'.assigns = 0
              /\ last'.err.kind = "UnknownStateError" => fsm'.state # last'.err.new_state
        /\ (Small /\ ~NoError /\ calls' = calls + 1) =>
              /\ last'.entry = last.entry
              /\ Order' = RuleList(fsm.rules, last.entry)
              /\ \A k \in DOMAIN Evaluated("test")' : Evaluated("test")'[k] = Order'[k] ]_vars

\* C27 witness: the first call fired a rule to C, which the table does not have, and
\* raised UnknownStateError; the second call was evaluated in A again and went to B
C27_Witness ==
    /\ Small /\ DefaultCheckpoints /\ calls = 2 /\ NoError
    /\ last.trail[1].before = "A" /\ last.trail[1].after = "A"
    /\ \E n \in DOMAIN ets["UnknownStateError"].trace :
          ets["UnknownStateError"].trace[n] = Format(TRACE_UNKNOWN_STATE, [new_state |-> "C"])
    /\ "C" \notin DOMAIN fsm.rules
    /\ last.entry = "A" /\ First > 0 /\ fsm.state = "B"

\* The snapshot is the record of a completed transition that left the state unchanged: a
\* rule fired, the NewState tracepoint was reached and the call ended in the state it
\* began in
CompletedLoop(e) ==
    /\ "new_state" \in DOMAIN e
    /\ last.trail[e.input_count].fired
    /\ SelfTransition(e.input_count)

\* C28 as stated: every snapshot fold_loop removes from the history of a ContextTracer is
\* the record of a completed transition that left the state unchanged (what else a call
\* removes is the oldest snapshot of a full buffer), and the inputs a loop_count counts,
\* the ones before its snapshot, are such transitions too: the record of an input that
\* matched no rule or found no rules is never folded, in lenient machines and in machines
\* that go on after a checkpoint error.
C28_AsStated ==
    [][ /\ \A e \in RemovedSnapshots :
              \/ CompletedLoop(e)
              \/ /\ ctx.maxlen >= 0 /\ Len(Snapshots(ctx)) > ctx.maxlen
                 /\ e = Snapshots(ctx)[1]
        /\ \A e \in Range(Snapshots(ctx)') :
              \A p \in (e.input_count - LoopCountOf(e))..(e.input_count - 1) :
                 /\ last'.trail[p].fired
                 /\ last'.trail[p].before = last'.trail[p].after ]_vars

\* C28, what the code does: fold_loop compares the states at entry only. Every snapshot
\* it removes is the record of a call that began in the state the folding call began in
\* and left the machine in it, with or without a rule fired
C28_EntryStateOnly ==
    [][ \A e \in RemovedSnapshots :
           \/ /\ e.state = last'.entry
              /\ e.state = last.trail[e.input_count].before
              /\ SelfTransition(e.input_count)
           \/ /\ ctx.maxlen >= 0 /\ Len(Snapshots(ctx)) > ctx.maxlen
              /\ e = Snapshots(ctx)[1] ]_vars

====
